---- MODULE Spec2Model ----
(***************************************************************************)
(* Fan-out / aggregation core of the name-availability service:            *)
(* check_name_availability (src/dashboard/availability.py) expands one     *)
(* request into one task per (group, provider), runs the tasks             *)
(* concurrently under asyncio.gather bounded by asyncio.wait_for, merges   *)
(* the outcomes into NameCheck.results and derives summary and status.     *)
(*                                                                         *)
(* app.cache (cache manager, rate limiter) and app.providers (provider     *)
(* manager) are not part of the sources at hand; they are modelled from    *)
(* sections 4.1 - 4.3 of the specification.                                *)
(*                                                                         *)
(* ConnectionManager and RealtimeChecker (src/dashboard/websocket.py)      *)
(* stream the progress of a check to a connected client; the WebSocket     *)
(* endpoint and the check function they are called with are not part of    *)
(* the sources, so their calls may come in any order.                      *)
(***************************************************************************)
EXTENDS Integers, Sequences, FiniteSets, TLC

VARIABLES
    phase,            \* position of the handler: "idle", "gather", "returned"
    request,          \* the NameCheckRequest being served
    task_metadata,    \* list of [group, provider], one per task
    tasks,            \* list of task records, one per check_single_provider_wrapper()
    timed_out,        \* the outer asyncio.wait_for raised TimeoutError
    settled,          \* indices of the tasks that had returned when the handler resumed
    name_check,       \* the NameCheck record built by the handler
    cache,            \* cache store: <<provider, name>> -> ProviderResult or None
    rate_counts,      \* rate limiter: provider -> admitted checks in the current window
    requests_made,    \* number of requests started so far
    completion,       \* indices of the tasks in the order they returned
    active_connections, \* ConnectionManager: client_id -> its WebSocket
    check_sessions,   \* ConnectionManager: client_id -> session dict
    runs,             \* the calls of RealtimeChecker.check_with_updates
    outbox,           \* the events handed to WebSocket.send_json, in order
    limiter_calls,    \* callers of check_rate_limit and what they were answered
    admitted_in_window, \* provider -> checks answered true in the current window
    endpoint_calls,   \* calls of check_single_provider and check_provider_availability
    batch,            \* the batch_check_names handler and the cache it uses
    users_db,         \* auth.py users_db: e-mail -> user
    auth_calls        \* calls of the auth endpoints and their responses

fanout_vars == <<phase, request, task_metadata, tasks, timed_out, settled,
                 name_check, cache, requests_made>>

stream_vars == <<active_connections, check_sessions, runs, outbox>>

limiter_vars == <<limiter_calls, admitted_in_window>>

endpoint_vars == <<endpoint_calls>>

batch_vars == <<batch>>

auth_vars == <<users_db, auth_calls>>

vars == <<phase, request, task_metadata, tasks, timed_out, settled,
          name_check, cache, rate_counts, requests_made, completion,
          active_connections, check_sessions, runs, outbox,
          limiter_calls, admitted_in_window, endpoint_calls,
          batch, users_db, auth_calls>>

----------------------------------------------------------------------------
(* Bounds of the model *)

MaxRequests == 2      \* requests served one after the other

MaxCallers == 4       \* tasks that call check_rate_limit

MaxChecks == 2        \* calls of RealtimeChecker.check_with_updates

MaxConnects == 1      \* WebSocket connections accepted per client

MaxSettled == 4       \* provider tasks per group that settle during a check

MaxNames == 3         \* names in a batch request

----------------------------------------------------------------------------
(* Values *)

Names == {"acme"}

Groups == {"social", "app_stores"}

Providers == {"instagram", "twitter", "chrome_webstore"}

None == [none |-> TRUE]

\* models.py ProviderResult; the tri-state Optional[bool] is written
\* "true" / "false" / "unknown" (None), error None is written "".
ProviderResult(provider, name, available, error) ==
    [provider |-> provider, name |-> name, available |-> available, error |-> error]

\* an exception object; str(e) is its message
Exception(msg) == [exception |-> msg]

IsException(r) == "exception" \in DOMAIN r

\* models.py CheckStatus
CheckStatus == [PENDING |-> "pending", COMPLETE |-> "complete",
                PARTIAL |-> "partial", FAILED |-> "failed"]

\* models.py NameCheckSummary(); overall_score is the exact fraction num/den
NameCheckSummary ==
    [total_checked |-> 0, available |-> 0, unavailable |-> 0, pending |-> 0,
     overall_score |-> [num |-> 0, den |-> 1]]

----------------------------------------------------------------------------
(* Collaborators outside the sources at hand: app.providers, app.cache *)

\* provider_manager.get_providers_in_group: the providers of a group, in order
get_providers_in_group(group) ==
    IF group = "social" THEN <<"instagram", "twitter">>
    ELSE IF group = "app_stores" THEN <<"chrome_webstore">>
    ELSE <<>>

\* config.py PROVIDER_RATE_LIMITS: the quota of requests per window
PROVIDER_RATE_LIMITS ==
    [instagram |-> 1, twitter |-> 15, chrome_webstore |-> 5]

\* variant: the comparison with the quota is off by one
check_rate_limit_Inclusive(counts, provider) ==
    counts[provider] <= PROVIDER_RATE_LIMITS[provider]

\* rate_limiter.check_rate_limit: admits while the window's quota is not
\* used up, never raises
check_rate_limit(counts, provider) == counts[provider] < PROVIDER_RATE_LIMITS[provider]

\* the limiter's counters after a check: an admitted check is counted once
count_rate_limit(counts, provider) ==
    IF check_rate_limit(counts, provider)
    THEN [counts EXCEPT ![provider] = @ + 1]
    ELSE counts

\* cache_manager.get_availability: the stored entry, or None when there is
\* none or the store cannot be reached
get_availability(store, reachable, provider, name) ==
    IF reachable THEN store[<<provider, name>>] ELSE None

\* cache_manager.set_availability: stores the entry; an unreachable store
\* leaves the cache as it is and does not fail the caller
set_availability(store, reachable, provider, name, result) ==
    IF reachable THEN [store EXCEPT ![<<provider, name>>] = result] ELSE store

\* whether the name is free at a provider is a fact of the outside world
\* that does not change while the service runs
ActualAvailability(provider, name) ==
    IF provider = "instagram" THEN "false" ELSE "true"

\* provider_manager.check_availability as the task sees it: the provider's
\* answer, an exception of the connector, or no answer within
\* provider_check_timeout
ProviderReplies(provider, name) ==
    { [kind |-> "returns",
       value |-> ProviderResult(provider, name, ActualAvailability(provider, name), "")],
      [kind |-> "raises", value |-> Exception("connector failure")],
      [kind |-> "timeout", value |-> None] }

----------------------------------------------------------------------------
(* check_single_provider_wrapper, one step per await *)

\* a task as created by check_tasks.append(check_single_provider_wrapper()):
\* pc is the await the coroutine is suspended at; admitted, cache_reads,
\* invokes, cache_writes, cached and reply record what the coroutine has done
\* and seen; fresh is its local variable result; result is its return value
NewTask ==
    [pc |-> "rate_limit", admitted |-> FALSE, cache_reads |-> 0, invokes |-> 0,
     cache_writes |-> 0, cached |-> None, reply |-> "", fresh |-> None,
     result |-> None]

\* variant: the rejection does not return, the task goes on to the cache
AfterRateLimit_NoReturn(t, prov_name, name, admitted) ==
    [t EXCEPT !.pc = "cache_get", !.admitted = admitted]

\* lines 61-70: the rate limiter's answer
AfterRateLimit(t, prov_name, name, admitted) ==
    IF ~admitted
    THEN [t EXCEPT !.pc = "done",
                   !.result = ProviderResult(prov_name, name, "unknown", "Rate limit exceeded")]
    ELSE [t EXCEPT !.pc = "cache_get", !.admitted = TRUE]

\* variant: the cached entry is not returned, the task goes on to the provider
AfterCacheGet_AlwaysMiss(t, cached_result) ==
    [t EXCEPT !.pc = "invoke", !.cache_reads = @ + 1, !.cached = cached_result]

\* lines 72-75: the cache lookup's answer
AfterCacheGet(t, cached_result) ==
    IF cached_result # None
    THEN [t EXCEPT !.pc = "done", !.cache_reads = @ + 1,
                   !.cached = cached_result, !.result = cached_result]
    ELSE [t EXCEPT !.pc = "invoke", !.cache_reads = @ + 1]

\* variant: no handler for asyncio.TimeoutError, the timeout falls into
\* "except Exception" and str(TimeoutError()) is empty
AfterInvoke_NoTimeoutHandler(t, prov_name, name, reply) ==
    IF reply.kind = "returns"
    THEN [t EXCEPT !.pc = "cache_set", !.invokes = @ + 1, !.reply = reply.kind,
                   !.fresh = reply.value]
    ELSE [t EXCEPT !.pc = "done", !.invokes = @ + 1, !.reply = reply.kind,
                   !.result = ProviderResult(prov_name, name, "unknown",
                                  IF reply.kind = "timeout" THEN ""
                                  ELSE reply.value.exception)]

\* variant: the error result of a timed-out call is handed to the cache
AfterInvoke_CacheTimeout(t, prov_name, name, reply) ==
    IF reply.kind = "returns"
    THEN [t EXCEPT !.pc = "cache_set", !.invokes = @ + 1, !.reply = reply.kind,
                   !.fresh = reply.value]
    ELSE IF reply.kind = "timeout"
    THEN [t EXCEPT !.pc = "cache_set", !.invokes = @ + 1, !.reply = reply.kind,
                   !.fresh = ProviderResult(prov_name, name, "unknown", "Request timeout")]
    ELSE [t EXCEPT !.pc = "done", !.invokes = @ + 1, !.reply = reply.kind,
                   !.result = ProviderResult(prov_name, name, "unknown", reply.value.exception)]

\* lines 78-86 and 90-107: the outcome of asyncio.wait_for(check_availability)
AfterInvoke(t, prov_name, name, reply) ==
    IF reply.kind = "returns"
    THEN [t EXCEPT !.pc = "cache_set", !.invokes = @ + 1, !.reply = reply.kind,
                   !.fresh = reply.value]
    ELSE IF reply.kind = "timeout"
    THEN [t EXCEPT !.pc = "done", !.invokes = @ + 1, !.reply = reply.kind,
                   !.result = ProviderResult(prov_name, name, "unknown", "Request timeout")]
    ELSE [t EXCEPT !.pc = "done", !.invokes = @ + 1, !.reply = reply.kind,
                   !.result = ProviderResult(prov_name, name, "unknown", reply.value.exception)]

\* variant: a write the cache did not take turns the result into an error
AfterCacheSet_FailOnLostWrite(t, stored) ==
    [t EXCEPT !.pc = "done", !.cache_writes = @ + 1,
              !.result = IF stored THEN t.fresh
                         ELSE ProviderResult(t.fresh.provider, t.fresh.name, "unknown",
                                             "cache unavailable")]

\* lines 87-89: after set_availability the fresh result is returned; what
\* the cache call reports (stored or not) is not looked at
AfterCacheSet(t, stored) ==
    [t EXCEPT !.pc = "done", !.cache_writes = @ + 1, !.result = t.fresh]

----------------------------------------------------------------------------
(* check_name_availability, the handler *)

\* lines 50-113: one (group, provider) entry per task, groups in request
\* order, providers in the group's order
RECURSIVE BuildMetadata(_)
BuildMetadata(groups) ==
    IF groups = <<>> THEN <<>>
    ELSE LET provs == get_providers_in_group(Head(groups))
         IN  [i \in 1..Len(provs) |-> [group |-> Head(groups), provider |-> provs[i]]]
             \o BuildMetadata(Tail(groups))

\* variant: the values are collected in another order than the tasks'
GatherResults_Reversed(ts) == [i \in 1..Len(ts) |-> ts[Len(ts) + 1 - i].result]

\* variant: the values are listed in the order the tasks returned
\* (asyncio.as_completed in place of asyncio.gather)
GatherResults_AsCompleted(ts) ==
    IF Len(completion) = Len(ts)
    THEN [k \in 1..Len(ts) |-> ts[completion[k]].result]
    ELSE [i \in 1..Len(ts) |-> ts[i].result]

\* lines 117-120: asyncio.gather(*check_tasks, return_exceptions=True)
\* returns the tasks' values in task order
GatherResults(ts) == [i \in 1..Len(ts) |-> ts[i].result]

\* variant: the list is not multiplied by len(check_tasks)
TimeoutResults_Single(ts) ==
    <<Exception("Request timeout - check took longer than 10 seconds")>>

\* lines 121-123: on the outer TimeoutError every position of results_list
\* holds the same exception
TimeoutResults(ts) ==
    [i \in 1..Len(ts) |-> Exception("Request timeout - check took longer than 10 seconds")]

\* lines 136-144: an exception becomes an error-shaped ProviderResult
AsProviderResult(provider, name, result) ==
    IF IsException(result)
    THEN ProviderResult(provider, name, "unknown", result.exception)
    ELSE result

\* lines 126-146: results[group][provider] = result over
\* zip(task_metadata, results_list)
RECURSIVE OrganizeResults(_, _, _, _)
OrganizeResults(metadata, results_list, name, results) ==
    IF metadata = <<>> \/ results_list = <<>> THEN results
    ELSE LET group == Head(metadata).group
             provider == Head(metadata).provider
             result == AsProviderResult(provider, name, Head(results_list))
             group_results == IF group \in DOMAIN results THEN results[group] ELSE <<>>
             updated == [p \in DOMAIN group_results \cup {provider} |->
                            IF p = provider THEN result ELSE group_results[p]]
         IN  OrganizeResults(Tail(metadata), Tail(results_list), name,
                 [g \in DOMAIN results \cup {group} |->
                     IF g = group THEN updated ELSE results[g]])

\* the (group, provider) keys of a results mapping
Entries(results) ==
    UNION { { <<g, p>> : p \in DOMAIN results[g] } : g \in DOMAIN results }

\* variant: "if" in place of "elif", an unknown result is counted as pending
\* and as unavailable
calculate_summary_DoubleCount(results) ==
    LET entries == Entries(results)
        avail(e) == results[e[1]][e[2]].available
        total_checked == Cardinality(entries)
        pending == Cardinality({e \in entries : avail(e) = "unknown"})
        available == Cardinality({e \in entries : avail(e) = "true"})
        unavailable == Cardinality({e \in entries : avail(e) # "true"})
    IN  [total_checked |-> total_checked, available |-> available,
         unavailable |-> unavailable, pending |-> pending,
         overall_score |-> IF total_checked > 0
                           THEN [num |-> available, den |-> total_checked]
                           ELSE [num |-> 0, den |-> 1]]

\* variant: the score is taken over the definite answers only
calculate_summary_ScoreOverDefinite(results) ==
    LET entries == Entries(results)
        avail(e) == results[e[1]][e[2]].available
        total_checked == Cardinality(entries)
        pending == Cardinality({e \in entries : avail(e) = "unknown"})
        available == Cardinality({e \in entries : avail(e) = "true"})
        unavailable == Cardinality({e \in entries : avail(e) = "false"})
    IN  [total_checked |-> total_checked, available |-> available,
         unavailable |-> unavailable, pending |-> pending,
         overall_score |-> IF available + unavailable > 0
                           THEN [num |-> available, den |-> available + unavailable]
                           ELSE [num |-> 0, den |-> 1]]

\* lines 325-351: calculate_summary
calculate_summary(results) ==
    LET entries == Entries(results)
        avail(e) == results[e[1]][e[2]].available
        total_checked == Cardinality(entries)
        pending == Cardinality({e \in entries : avail(e) = "unknown"})
        available == Cardinality({e \in entries : avail(e) # "unknown" /\ avail(e) = "true"})
        unavailable == Cardinality({e \in entries : avail(e) # "unknown" /\ avail(e) # "true"})
    IN  [total_checked |-> total_checked, available |-> available,
         unavailable |-> unavailable, pending |-> pending,
         overall_score |-> IF total_checked > 0
                           THEN [num |-> available, den |-> total_checked]
                           ELSE [num |-> 0, den |-> 1]]

\* variant: the entries are popped from the mapping while they are counted
calculate_summary_call_Consuming(results) ==
    [value |-> calculate_summary(results), results |-> <<>>]

\* lines 325-351: one call of calculate_summary: the value returned and the
\* mapping passed in as the call leaves it; the loops only read
\* results.values() and result.available
calculate_summary_call(results) ==
    [value |-> calculate_summary(results), results |-> results]

\* variant: a check without results is not marked complete
all_complete_NonEmpty(results) ==
    /\ Entries(results) # {}
    /\ \A e \in Entries(results) : results[e[1]][e[2]].available # "unknown"

\* lines 153-157: all_complete
all_complete(results) ==
    \A e \in Entries(results) : results[e[1]][e[2]].available # "unknown"

\* lines 159-160: the status of the returned NameCheck
FinalStatus(status, results) ==
    IF all_complete(results) THEN CheckStatus.COMPLETE ELSE status

\* lines 125-160, 220: from results_list to the returned NameCheck; the
\* optional brandability block (lines 162-217) changes neither results,
\* summary nor status
Finish(check, results_list) ==
    LET results == OrganizeResults(task_metadata, results_list, request.name, <<>>)
        call == calculate_summary_call(results)
    IN  [check EXCEPT !.results = call.results,
                      !.summary = call.value,
                      !.status = FinalStatus(check.status, call.results)]

----------------------------------------------------------------------------
(* Actions *)

NoRequest == [name |-> "", providers |-> <<>>]

\* the provider-group lists a request may carry: distinct known groups
RequestProviders ==
    { gs \in UNION { [1..n -> Groups] : n \in 0..Cardinality(Groups) } :
        \A i, j \in 1..Len(gs) : i # j => gs[i] # gs[j] }

\* no handler is running
FanoutIdle ==
    /\ phase = "idle"
    /\ request = NoRequest
    /\ task_metadata = <<>>
    /\ tasks = <<>>
    /\ timed_out = FALSE
    /\ settled = {}
    /\ name_check = None
    /\ completion = <<>>

\* ConnectionManager.__init__ (websocket.py lines 15-17) and no call of
\* check_with_updates yet
StreamIdle ==
    /\ active_connections = <<>>
    /\ check_sessions = <<>>
    /\ runs = <<>>
    /\ outbox = <<>>

\* nobody is calling the rate limiter
LimiterIdle ==
    /\ limiter_calls = <<>>
    /\ admitted_in_window = [p \in Providers |-> 0]

\* no call of the single-provider endpoint or of the background check yet
EndpointIdle == endpoint_calls = <<>>

\* no batch request is being served and the batch cache holds nothing
NoBatch(store) ==
    [pc |-> "idle", raw |-> <<>>, names |-> <<>>, parallel |-> FALSE, tasks |-> <<>>,
     order |-> <<>>, response |-> None, store |-> store, store0 |-> store]

BatchIdle == batch = NoBatch(<<>>)

\* auth.py line 34: users_db = {}
AuthIdle ==
    /\ users_db = <<>>
    /\ auth_calls = <<>>

Init ==
    /\ FanoutIdle
    /\ cache = [k \in Providers \X Names |-> None]
    /\ rate_counts = [p \in Providers |-> 0]
    /\ requests_made = 0
    /\ StreamIdle
    /\ LimiterIdle
    /\ EndpointIdle
    /\ BatchIdle
    /\ AuthIdle

\* lines 24-113: the request arrives, the NameCheck is created PENDING and
\* one task per (group, provider) is created
StartCheck(name, providers) ==
    /\ phase \in {"idle", "returned"}
    /\ requests_made < MaxRequests
    /\ requests_made' = requests_made + 1
    /\ phase' = "gather"
    /\ request' = [name |-> name, providers |-> providers]
    /\ task_metadata' = BuildMetadata(providers)
    /\ tasks' = [i \in 1..Len(BuildMetadata(providers)) |-> NewTask]
    /\ timed_out' = FALSE
    /\ settled' = {}
    /\ name_check' = [status |-> CheckStatus.PENDING, results |-> <<>>,
                      summary |-> NameCheckSummary]
    /\ UNCHANGED <<cache, rate_counts>>

\* line 62: await rate_limiter.check_rate_limit(prov_name)
RateLimitStep(i) ==
    /\ phase = "gather"
    /\ tasks[i].pc = "rate_limit"
    /\ LET prov == task_metadata[i].provider
       IN  /\ tasks' = [tasks EXCEPT ![i] =
                 AfterRateLimit(@, prov, request.name, check_rate_limit(rate_counts, prov))]
           /\ rate_counts' = count_rate_limit(rate_counts, prov)
    /\ UNCHANGED <<phase, request, task_metadata, timed_out, settled, name_check,
                   cache, requests_made>>

\* line 73: await cache_manager.get_availability(prov_name, request.name)
CacheGet(i, reachable) ==
    /\ phase = "gather"
    /\ tasks[i].pc = "cache_get"
    /\ tasks' = [tasks EXCEPT ![i] =
           AfterCacheGet(@, get_availability(cache, reachable,
                                             task_metadata[i].provider, request.name))]
    /\ UNCHANGED <<phase, request, task_metadata, timed_out, settled, name_check,
                   cache, rate_counts, requests_made>>

\* lines 79-86: await asyncio.wait_for(provider_manager.check_availability(...))
Invoke(i, reply) ==
    /\ phase = "gather"
    /\ tasks[i].pc = "invoke"
    /\ tasks' = [tasks EXCEPT ![i] =
           AfterInvoke(@, task_metadata[i].provider, request.name, reply)]
    /\ UNCHANGED <<phase, request, task_metadata, timed_out, settled, name_check,
                   cache, rate_counts, requests_made>>

\* line 88: await cache_manager.set_availability(prov_name, request.name, result)
CacheSet(i, reachable) ==
    /\ phase = "gather"
    /\ tasks[i].pc = "cache_set"
    /\ cache' = set_availability(cache, reachable, task_metadata[i].provider,
                                 request.name, tasks[i].fresh)
    /\ tasks' = [tasks EXCEPT ![i] = AfterCacheSet(@, reachable)]
    /\ UNCHANGED <<phase, request, task_metadata, timed_out, settled, name_check,
                   rate_counts, requests_made>>

\* lines 117-120 then 125-220: every task has returned, gather delivers
GatherDone ==
    /\ phase = "gather"
    /\ \A i \in 1..Len(tasks) : tasks[i].pc = "done"
    /\ settled' = 1..Len(tasks)
    /\ name_check' = Finish(name_check, GatherResults(tasks))
    /\ phase' = "returned"
    /\ UNCHANGED <<request, task_metadata, tasks, timed_out, cache, rate_counts,
                   requests_made>>

\* variant: gather is awaited without asyncio.wait_for, no timeout ever fires
OverallTimeout_Never ==
    /\ FALSE
    /\ UNCHANGED fanout_vars

\* lines 121-123 then 125-220: total_request_timeout expires while some task
\* has not returned; wait_for cancels the tasks still running
OverallTimeout ==
    /\ phase = "gather"
    /\ \E i \in 1..Len(tasks) : tasks[i].pc # "done"
    /\ timed_out' = TRUE
    /\ settled' = {i \in 1..Len(tasks) : tasks[i].pc = "done"}
    /\ tasks' = [i \in 1..Len(tasks) |->
                    IF tasks[i].pc = "done" THEN tasks[i]
                    ELSE [tasks[i] EXCEPT !.pc = "cancelled"]]
    /\ name_check' = Finish(name_check, TimeoutResults(tasks))
    /\ phase' = "returned"
    /\ UNCHANGED <<request, task_metadata, cache, rate_counts, requests_made>>

\* the rate limiter's window of a provider runs out
WindowExpire(provider) ==
    /\ rate_counts[provider] > 0
    /\ rate_counts' = [rate_counts EXCEPT ![provider] = 0]
    /\ UNCHANGED <<phase, request, task_metadata, tasks, timed_out, settled,
                   name_check, cache, requests_made>>

\* the variables the handler of POST /check does not touch
OutsideFanout ==
    UNCHANGED <<completion, stream_vars, limiter_vars, endpoint_vars, batch_vars, auth_vars>>

Next ==
    \/ /\ \E name \in Names, providers \in RequestProviders : StartCheck(name, providers)
       /\ OutsideFanout
    \/ /\ \E i \in 1..Len(tasks) : RateLimitStep(i)
       /\ OutsideFanout
    \/ /\ \E i \in 1..Len(tasks), reachable \in BOOLEAN : CacheGet(i, reachable)
       /\ OutsideFanout
    \/ /\ \E i \in 1..Len(tasks) :
             \E reply \in ProviderReplies(task_metadata[i].provider, request.name) :
                Invoke(i, reply)
       /\ OutsideFanout
    \/ /\ \E i \in 1..Len(tasks), reachable \in BOOLEAN : CacheSet(i, reachable)
       /\ OutsideFanout
    \/ GatherDone /\ OutsideFanout
    \/ OverallTimeout /\ OutsideFanout
    \/ /\ \E provider \in Providers : WindowExpire(provider)
       /\ OutsideFanout

Spec == Init /\ [][Next]_vars

----------------------------------------------------------------------------
(* One request, with the order in which its tasks return *)

\* the cache and the rate limiter as earlier requests may have left them
InitOrder ==
    /\ FanoutIdle
    /\ cache \in [Providers \X Names ->
                    {None} \cup { ProviderResult(p, n, ActualAvailability(p, n), "") :
                                    p \in Providers, n \in Names }]
    /\ \A k \in Providers \X Names : cache[k] # None => cache[k].provider = k[1]
    /\ rate_counts \in [Providers -> 0..1]
    /\ requests_made = MaxRequests - 1
    /\ StreamIdle
    /\ LimiterIdle
    /\ EndpointIdle
    /\ BatchIdle
    /\ AuthIdle

\* a task that returns in this step is appended to completion
RecordCompletion ==
    /\ completion' =
          IF phase # "gather" THEN <<>>
          ELSE IF \E i \in 1..Len(tasks) : tasks[i].pc # "done" /\ tasks'[i].pc = "done"
          THEN Append(completion,
                      CHOOSE i \in 1..Len(tasks) :
                          tasks[i].pc # "done" /\ tasks'[i].pc = "done")
          ELSE completion
    /\ UNCHANGED <<stream_vars, limiter_vars, endpoint_vars, batch_vars, auth_vars>>

NextOrder ==
    \/ /\ \E name \in Names, providers \in RequestProviders : StartCheck(name, providers)
       /\ RecordCompletion
    \/ /\ \E i \in 1..Len(tasks) : RateLimitStep(i)
       /\ RecordCompletion
    \/ /\ \E i \in 1..Len(tasks), reachable \in BOOLEAN : CacheGet(i, reachable)
       /\ RecordCompletion
    \/ /\ \E i \in 1..Len(tasks) :
             \E reply \in ProviderReplies(task_metadata[i].provider, request.name) :
                Invoke(i, reply)
       /\ RecordCompletion
    \/ /\ \E i \in 1..Len(tasks), reachable \in BOOLEAN : CacheSet(i, reachable)
       /\ RecordCompletion
    \/ GatherDone /\ RecordCompletion
    \/ OverallTimeout /\ RecordCompletion

SpecOrder == InitOrder /\ [][NextOrder]_vars

\* the event loop runs the timer of asyncio.wait_for and resumes the handler
\* when gather is done; no task is required ever to get an answer
InitLive ==
    /\ InitOrder
    /\ \A k \in Providers \X Names : cache[k] = None
    /\ \A p \in Providers : rate_counts[p] = 1 => PROVIDER_RATE_LIMITS[p] = 1

LiveSpec ==
    /\ InitLive
    /\ [][NextOrder]_vars
    /\ WF_vars(GatherDone /\ RecordCompletion)
    /\ WF_vars(OverallTimeout /\ RecordCompletion)

----------------------------------------------------------------------------
(* ConnectionManager and RealtimeChecker (src/dashboard/websocket.py) *)

Clients == {"c1"}

\* a dict without the given key (del d[key])
Without(d, key) ==
    IF DOMAIN d \ {key} = {} THEN <<>>
    ELSE [k \in DOMAIN d \ {key} |-> d[k]]

\* a dict with the given key set (d[key] = value)
With(d, key, value) ==
    [k \in DOMAIN d \cup {key} |-> IF k = key THEN value ELSE d[k]]

\* a message as websocket.send_json gets it; the fields a message type does
\* not have are left at their defaults
Message(type, client, session_id) ==
    [type |-> type, client |-> client, session_id |-> session_id,
     total |-> 0, completed |-> 0, percentage |-> 0, results |-> <<>>, error |-> ""]

\* variant: the message goes out on a connection the manager holds, whoever
\* it belongs to
send_personal_message_AnyConnection(box, connections, message, client_id) ==
    IF connections # <<>>
    THEN Append(box, [ws |-> connections[CHOOSE c \in DOMAIN connections : TRUE],
                      message |-> message])
    ELSE box

\* lines 35-39: send_personal_message hands the message to the client's
\* WebSocket, or drops it when the client has no connection
send_personal_message(box, connections, message, client_id) ==
    IF client_id \in DOMAIN connections
    THEN Append(box, [ws |-> connections[client_id], message |-> message])
    ELSE box

\* lines 133-143: the estimate per provider group, 5 for an unknown group
provider_counts(p) ==
    IF p = "domains" THEN 10
    ELSE IF p = "social" THEN 8
    ELSE IF p = "package_registries" THEN 5
    ELSE IF p = "app_stores" THEN 3
    ELSE IF p = "dev_platforms" THEN 5
    ELSE 5

RECURSIVE _calculate_total_checks(_)
_calculate_total_checks(providers) ==
    IF providers = <<>> THEN 0
    ELSE provider_counts(Head(providers)) + _calculate_total_checks(Tail(providers))

\* round(x, 1) of x = completed / total * 100, in tenths of a percent, ties
\* to the even tenth
Percentage(completed, total) ==
    LET q == (1000 * completed) \div total
        r == (1000 * completed) % total
    IN  IF 2 * r > total THEN q + 1
        ELSE IF 2 * r < total THEN q
        ELSE IF q % 2 = 0 THEN q ELSE q + 1

\* lines 51-62: the session dict start_check_session stores
NewSession(session_id, name, providers) ==
    [session_id |-> session_id, name |-> name, providers |-> providers,
     total_checks |-> _calculate_total_checks(providers),
     completed_checks |-> 0, results |-> <<>>]

\* variant: the result is stored but the counter is left as it is
UpdatedSession_NoIncrement(session, key, available) ==
    [session EXCEPT !.results = With(@, key, available)]

\* lines 84-95: the session after update_check_progress stored a result
UpdatedSession(session, key, available) ==
    [session EXCEPT !.results = With(@, key, available),
                    !.completed_checks = @ + 1]

\* lines 96-112: the progress_update message
ProgressMessage(client_id, session) ==
    [Message("progress_update", client_id, session.session_id) EXCEPT
        !.completed = session.completed_checks,
        !.total = session.total_checks,
        !.percentage = Percentage(session.completed_checks, session.total_checks)]

\* variant: the session is kept after session_complete
EndSession_Keep(sessions, client_id) == sessions

\* line 131: del self.check_sessions[client_id]
EndSession(sessions, client_id) == Without(sessions, client_id)

\* the WebSockets accepted so far; each connection is an object of its own
Accepted == { i \in 1..Len(outbox) : outbox[i].message.type = "connected" }

\* the WebSockets accepted under a client_id
AcceptedFor(client_id) == { i \in Accepted : outbox[i].message.client = client_id }

\* the provider tasks of a check, as the fan-out creates them
CheckTasks(providers) ==
    LET metadata == BuildMetadata(providers)
    IN  { <<metadata[i].group, metadata[i].provider>> : i \in 1..Len(metadata) }

\* the provider groups a streaming check is asked for
StreamProviders == {<<"app_stores">>}

\* the availability a settled provider task reports
SettledAvailability(key, name) == ActualAvailability(key[2], name)

OutsideStream ==
    UNCHANGED <<fanout_vars, rate_counts, completion, limiter_vars, endpoint_vars,
                batch_vars, auth_vars>>

\* lines 19-26: connect accepts the WebSocket, stores it under client_id,
\* replacing a connection stored under the same id, and greets the client
Connect(client_id) ==
    /\ Cardinality(AcceptedFor(client_id)) < MaxConnects
    /\ LET websocket == Cardinality(Accepted) + 1
           connections == With(active_connections, client_id, websocket)
       IN  /\ active_connections' = connections
           /\ outbox' = send_personal_message(outbox, connections,
                                              Message("connected", client_id, 0), client_id)
    /\ UNCHANGED <<check_sessions, runs>>
    /\ OutsideStream

\* variant: disconnect drops the connection and leaves the session
Disconnect_KeepSession(client_id) ==
    /\ client_id \in DOMAIN active_connections \cup DOMAIN check_sessions
    /\ active_connections' = Without(active_connections, client_id)
    /\ UNCHANGED <<check_sessions, runs, outbox>>
    /\ OutsideStream

\* lines 28-33: disconnect drops the connection and the session of client_id
Disconnect(client_id) ==
    /\ client_id \in DOMAIN active_connections \cup DOMAIN check_sessions
    /\ active_connections' = Without(active_connections, client_id)
    /\ check_sessions' = Without(check_sessions, client_id)
    /\ UNCHANGED <<runs, outbox>>
    /\ OutsideStream

\* line 173 with lines 49-71: check_with_updates starts a session; the dict
\* stored under client_id replaces the one that may be there. tasks are the
\* provider tasks the check function passed to check_with_updates will report
StartSessionWithTasks(client_id, name, providers, check_tasks) ==
    /\ Len(runs) < MaxChecks
    /\ LET session_id == Len(runs) + 1
           session == NewSession(session_id, name, providers)
       IN  /\ check_sessions' = With(check_sessions, client_id, session)
           /\ outbox' = send_personal_message(outbox, active_connections,
                           [Message("session_started", client_id, session_id) EXCEPT
                               !.total = session.total_checks],
                           client_id)
           /\ runs' = Append(runs, [client_id |-> client_id, session_id |-> session_id,
                                    name |-> name, providers |-> providers, pc |-> "checking",
                                    unreported |-> check_tasks,
                                    update_failed |-> FALSE, exception |-> ""])
    /\ UNCHANGED active_connections
    /\ OutsideStream

\* a check whose check function runs one provider task per provider of the
\* requested groups
StartCheckSession(client_id, name, providers) ==
    StartSessionWithTasks(client_id, name, providers, CheckTasks(providers))

\* lines 177-180 with lines 73-112: the check function reports a settled
\* provider task through progress_callback; with total_checks = 0 line 96
\* raises ZeroDivisionError into the check function before anything is sent
ProgressCallback(r, key) ==
    /\ runs[r].pc = "checking"
    /\ key \in runs[r].unreported
    /\ LET client_id == runs[r].client_id
           failed == /\ client_id \in DOMAIN check_sessions
                     /\ check_sessions[client_id].total_checks = 0
       IN  runs' = [runs EXCEPT ![r].unreported = @ \ {key},
                                ![r].update_failed = @ \/ failed]
    /\ LET client_id == runs[r].client_id
       IN  IF client_id \notin DOMAIN check_sessions
           THEN UNCHANGED <<check_sessions, outbox>>
           ELSE LET available == SettledAvailability(key, runs[r].name)
                    session == UpdatedSession(check_sessions[client_id], key, available)
                IN  /\ check_sessions' = [check_sessions EXCEPT ![client_id] = session]
                    /\ outbox' =
                          IF session.total_checks = 0
                          THEN outbox
                          ELSE send_personal_message(outbox, active_connections,
                                   ProgressMessage(client_id, session), client_id)
    /\ UNCHANGED active_connections
    /\ OutsideStream

\* lines 183-190 with lines 114-129: the check function returned and
\* complete_check_session sends session_complete; it is suspended in the send
CheckReturns(r) ==
    /\ runs[r].pc = "checking"
    /\ runs[r].unreported = {}
    /\ LET client_id == runs[r].client_id
       IN  IF client_id \notin DOMAIN check_sessions
           THEN /\ runs' = [runs EXCEPT ![r].pc = "returned"]
                /\ UNCHANGED outbox
           ELSE LET session == check_sessions[client_id]
                IN  /\ runs' = [runs EXCEPT ![r].pc = "completing"]
                    /\ outbox' = send_personal_message(outbox, active_connections,
                                    [Message("session_complete", client_id, session.session_id)
                                        EXCEPT !.results = session.results],
                                    client_id)
    /\ UNCHANGED <<active_connections, check_sessions>>
    /\ OutsideStream

\* lines 130-131 and 190, or 192-199: complete_check_session resumes and
\* deletes the session; when the entry is gone the del raises KeyError, which
\* check_with_updates reports and re-raises
CompleteResumes(r) ==
    /\ runs[r].pc = "completing"
    /\ LET client_id == runs[r].client_id
       IN  IF client_id \in DOMAIN check_sessions
           THEN /\ check_sessions' = EndSession(check_sessions, client_id)
                /\ runs' = [runs EXCEPT ![r].pc = "returned"]
                /\ UNCHANGED outbox
           ELSE /\ outbox' = send_personal_message(outbox, active_connections,
                                [Message("error", client_id, runs[r].session_id) EXCEPT
                                    !.error = "KeyError"],
                                client_id)
                /\ runs' = [runs EXCEPT ![r].pc = "raised", ![r].exception = "KeyError"]
                /\ UNCHANGED check_sessions
    /\ UNCHANGED active_connections
    /\ OutsideStream

\* lines 192-199: the check function raised; the error is reported to the
\* client and the exception goes on to the caller
CheckRaises(r) ==
    /\ runs[r].pc = "checking"
    /\ outbox' = send_personal_message(outbox, active_connections,
                    [Message("error", runs[r].client_id, runs[r].session_id) EXCEPT
                        !.error = "check failed"],
                    runs[r].client_id)
    /\ runs' = [runs EXCEPT ![r].pc = "raised", ![r].exception = "check failed"]
    /\ UNCHANGED <<active_connections, check_sessions>>
    /\ OutsideStream

NextStream ==
    \/ \E client_id \in Clients : Connect(client_id)
    \/ \E client_id \in Clients : Disconnect(client_id)
    \/ \E client_id \in Clients, name \in Names, providers \in StreamProviders :
          StartCheckSession(client_id, name, providers)
    \/ \E r \in 1..Len(runs) : \E key \in runs[r].unreported : ProgressCallback(r, key)
    \/ \E r \in 1..Len(runs) : CheckReturns(r)
    \/ \E r \in 1..Len(runs) : CompleteResumes(r)
    \/ \E r \in 1..Len(runs) : CheckRaises(r)

SpecStream == Init /\ [][NextStream]_vars

\* the same manager serving two clients, each running one check of one name
TwoClients == {"c1", "c2"}

NextClients ==
    \/ \E client_id \in TwoClients :
          /\ Cardinality(Accepted) <= MaxConnects
          /\ Connect(client_id)
    \/ \E client_id \in TwoClients : Disconnect(client_id)
    \/ \E client_id \in TwoClients, providers \in StreamProviders :
          /\ \A r \in 1..Len(runs) : runs[r].client_id # client_id
          /\ StartCheckSession(client_id, "acme", providers)
    \/ \E r \in 1..Len(runs) : \E key \in runs[r].unreported : ProgressCallback(r, key)
    \/ \E r \in 1..Len(runs) : CheckReturns(r)
    \/ \E r \in 1..Len(runs) : CompleteResumes(r)
    \/ \E r \in 1..Len(runs) : CheckRaises(r)

SpecClients == Init /\ [][NextClients]_vars

\* one client that connects and then calls check_with_updates, at most two
\* calls at a time; the check function is the caller's, runs as many provider
\* tasks per requested group as the provider registry holds for it and reports
\* them one after the other
ProgressProviders == {<<>>, <<"app_stores">>}

SettledNames ==
    <<"chrome_webstore", "app_store_search", "google_play_search",
      "provider_4", "provider_5", "provider_6">>

\* the provider tasks of a check function that runs n tasks per group
SettledTasks(providers, n) ==
    { <<providers[g], SettledNames[k]>> : g \in 1..Len(providers), k \in 1..n }

\* the task a check function reports next
NextReported(r, key) ==
    /\ key \in runs[r].unreported
    /\ \E k \in 1..Len(SettledNames) :
          /\ key[2] = SettledNames[k]
          /\ \A j \in 1..(k - 1) : <<key[1], SettledNames[j]>> \notin runs[r].unreported

\* the checks that have not ended
InFlight == { r \in 1..Len(runs) : runs[r].pc \in {"checking", "completing"} }

NextProgress ==
    \/ /\ runs = <<>>
       /\ Connect("c1")
    \/ \E providers \in ProgressProviders :
          \E n \in 0..(IF MaxSettled < Len(SettledNames) THEN MaxSettled
                        ELSE Len(SettledNames)) :
              /\ Cardinality(InFlight) < 2
              /\ StartSessionWithTasks("c1", "acme", providers, SettledTasks(providers, n))
    \/ \E r \in 1..Len(runs) : \E key \in runs[r].unreported :
          /\ NextReported(r, key)
          /\ ProgressCallback(r, key)
    \/ \E r \in 1..Len(runs) : CheckReturns(r)
    \/ \E r \in 1..Len(runs) : CompleteResumes(r)

SpecProgress == Init /\ [][NextProgress]_vars

----------------------------------------------------------------------------
(* GET /check/{provider}/{name} and the background check
   (src/dashboard/availability.py lines 223-254 and 293-322) *)

\* the names a caller may put in the path: a valid one, one of a single
\* character and one with a character outside [a-zA-Z0-9_-]
EndpointNames == {"acme", "a", "ac.me"}

\* the characters of a name
Chars(name) ==
    IF name = "acme" THEN <<"a", "c", "m", "e">>
    ELSE IF name = "a" THEN <<"a">>
    ELSE <<"a", "c", ".", "m", "e">>

\* the characters the names above are made of that match [a-zA-Z0-9_-]
NameAlphabet == {"a", "c", "m", "e"}

\* models.py lines 129-135: NameCheckRequest.validate_name accepts 2 to 50
\* characters of [a-zA-Z0-9_-]
validate_name(name) ==
    /\ Len(Chars(name)) >= 2
    /\ Len(Chars(name)) <= 50
    /\ \A i \in 1..Len(Chars(name)) : Chars(name)[i] \in NameAlphabet

\* the providers a caller may put in the path: the registered ones and one
\* that is not registered
EndpointProviders == Providers \cup {"myspace"}

\* provider_manager.is_valid_provider: the provider is registered
is_valid_provider(provider) == provider \in Providers

\* provider_manager.check_availability as an awaiting caller without a
\* timeout of its own sees it: the provider's answer or an exception
EndpointReplies(provider, name) ==
    { reply \in ProviderReplies(provider, name) : reply.kind # "timeout" }

\* what a call did, for the record in endpoint_calls
CallRecord(endpoint, provider, name) ==
    [endpoint |-> endpoint, provider |-> provider, name |-> name,
     rate_checked |-> FALSE, cache_read |-> FALSE, invoked |-> FALSE,
     cache_written |-> FALSE, status |-> 0]

\* lines 235-236: the endpoint's validation of its path parameters; the name
\* is not looked at
PathAccepted(provider, name) == is_valid_provider(provider)

\* variant: the cache is looked up before the rate limiter is asked
check_single_provider_CacheFirst(provider, name, read_ok, reply, write_ok) ==
    LET call == CallRecord("check_single_provider", provider, name)
        admitted == check_rate_limit(rate_counts, provider)
        cached_result == get_availability(cache, read_ok, provider, name)
    IN  IF ~PathAccepted(provider, name)
        THEN /\ endpoint_calls' = Append(endpoint_calls, [call EXCEPT !.status = 400])
             /\ UNCHANGED <<rate_counts, cache>>
        ELSE IF cached_result # None
        THEN /\ endpoint_calls' = Append(endpoint_calls,
                     [call EXCEPT !.cache_read = TRUE, !.status = 200])
             /\ UNCHANGED <<rate_counts, cache>>
        ELSE IF ~admitted
        THEN /\ endpoint_calls' = Append(endpoint_calls,
                     [call EXCEPT !.rate_checked = TRUE, !.cache_read = TRUE,
                                  !.status = 429])
             /\ rate_counts' = count_rate_limit(rate_counts, provider)
             /\ UNCHANGED cache
        ELSE IF reply.kind = "raises"
        THEN /\ endpoint_calls' = Append(endpoint_calls,
                     [call EXCEPT !.rate_checked = TRUE, !.cache_read = TRUE,
                                  !.invoked = TRUE, !.status = 500])
             /\ rate_counts' = count_rate_limit(rate_counts, provider)
             /\ UNCHANGED cache
        ELSE /\ endpoint_calls' = Append(endpoint_calls,
                     [call EXCEPT !.rate_checked = TRUE, !.cache_read = TRUE,
                                  !.invoked = TRUE, !.cache_written = TRUE,
                                  !.status = 200])
             /\ rate_counts' = count_rate_limit(rate_counts, provider)
             /\ cache' = set_availability(cache, write_ok, provider, name, reply.value)

\* lines 223-254: check_single_provider. 400 for a provider that is not
\* registered (235-236), 429 when the limiter refuses (239-240), the cached
\* entry when there is one (243-245), else the provider is called (249), its
\* result cached (252) and returned; an exception of the provider leaves the
\* handler at line 249. The name is used as it came in the path
check_single_provider(provider, name, read_ok, reply, write_ok) ==
    LET call == CallRecord("check_single_provider", provider, name)
        admitted == check_rate_limit(rate_counts, provider)
        cached_result == get_availability(cache, read_ok, provider, name)
    IN  IF ~PathAccepted(provider, name)
        THEN /\ endpoint_calls' = Append(endpoint_calls, [call EXCEPT !.status = 400])
             /\ UNCHANGED <<rate_counts, cache>>
        ELSE IF ~admitted
        THEN /\ endpoint_calls' = Append(endpoint_calls,
                     [call EXCEPT !.rate_checked = TRUE, !.status = 429])
             /\ rate_counts' = count_rate_limit(rate_counts, provider)
             /\ UNCHANGED cache
        ELSE IF cached_result # None
        THEN /\ endpoint_calls' = Append(endpoint_calls,
                     [call EXCEPT !.rate_checked = TRUE, !.cache_read = TRUE,
                                  !.status = 200])
             /\ rate_counts' = count_rate_limit(rate_counts, provider)
             /\ UNCHANGED cache
        ELSE IF reply.kind = "raises"
        THEN /\ endpoint_calls' = Append(endpoint_calls,
                     [call EXCEPT !.rate_checked = TRUE, !.cache_read = TRUE,
                                  !.invoked = TRUE, !.status = 500])
             /\ rate_counts' = count_rate_limit(rate_counts, provider)
             /\ UNCHANGED cache
        ELSE /\ endpoint_calls' = Append(endpoint_calls,
                     [call EXCEPT !.rate_checked = TRUE, !.cache_read = TRUE,
                                  !.invoked = TRUE, !.cache_written = TRUE,
                                  !.status = 200])
             /\ rate_counts' = count_rate_limit(rate_counts, provider)
             /\ cache' = set_availability(cache, write_ok, provider, name, reply.value)

\* lines 293-322: check_provider_availability, the background task. The
\* provider's result is cached (304-307); when the provider raises, a
\* ProviderResult with available None and the error text is cached in its
\* place (311-322)
check_provider_availability(provider_name, name, reply, write_ok) ==
    LET call == [CallRecord("check_provider_availability", provider_name, name)
                    EXCEPT !.invoked = TRUE, !.cache_written = TRUE]
        error_result == ProviderResult(provider_name, name, "unknown",
                                       IF reply.kind = "raises"
                                       THEN reply.value.exception ELSE "")
    IN  /\ endpoint_calls' = Append(endpoint_calls, call)
        /\ cache' = set_availability(cache, write_ok, provider_name, name,
                        IF reply.kind = "raises" THEN error_result ELSE reply.value)
        /\ UNCHANGED rate_counts

OutsideEndpoint ==
    UNCHANGED <<phase, request, task_metadata, tasks, timed_out, settled, name_check,
                requests_made, completion, stream_vars, limiter_vars, batch_vars,
                auth_vars>>

\* a client calls GET /check/{provider}/{name}
CallCheckSingleProvider(provider, name) ==
    /\ Len(endpoint_calls) < MaxRequests
    /\ \E read_ok, write_ok \in BOOLEAN :
          \E reply \in EndpointReplies(provider, name) :
              check_single_provider(provider, name, read_ok, reply, write_ok)
    /\ OutsideEndpoint

\* the background task runs for a registered provider and a validated name
RunCheckProviderAvailability(provider_name, name) ==
    /\ Len(endpoint_calls) < MaxRequests
    /\ \E write_ok \in BOOLEAN :
          \E reply \in EndpointReplies(provider_name, name) :
              check_provider_availability(provider_name, name, reply, write_ok)
    /\ OutsideEndpoint

InitSingle ==
    /\ FanoutIdle
    /\ cache = [k \in Providers \X EndpointNames |-> None]
    /\ rate_counts = [p \in Providers |-> 0]
    /\ requests_made = 0
    /\ StreamIdle
    /\ LimiterIdle
    /\ EndpointIdle
    /\ BatchIdle
    /\ AuthIdle

NextSingle ==
    \/ \E provider \in EndpointProviders, name \in EndpointNames :
          CallCheckSingleProvider(provider, name)
    \/ \E provider_name \in Providers, name \in Names :
          RunCheckProviderAvailability(provider_name, name)

SpecSingle == InitSingle /\ [][NextSingle]_vars

----------------------------------------------------------------------------
(* register and request_password_reset (src/dashboard/auth.py) *)

Emails == {"ann@x.io", "bob@x.io"}

Passwords == {"secret-one", "secret-two"}

\* app.auth.hash_password: a digest from which the password cannot be read
hash_password(password) == [digest_of |-> password]

\* lines 62-76: the user dict register builds; uuid4 gives an id no stored
\* user has
NewUser(user_id, email, password) ==
    [id |-> user_id, email |-> email, full_name |-> "",
     hashed_password |-> hash_password(password),
     is_active |-> TRUE, is_verified |-> FALSE, role |-> "user", api_key |-> None]

\* a call and its response, for the record in auth_calls
AuthCall(endpoint, email, status, message) ==
    [endpoint |-> endpoint, email |-> email, registered |-> email \in DOMAIN users_db,
     status |-> status, message |-> message, before |-> users_db]

\* variant: the store is written without looking for the e-mail first
register_Overwrites(email, password, confirm_password, redis_ok) ==
    IF password # confirm_password
    THEN /\ auth_calls' = Append(auth_calls,
                AuthCall("register", email, 400, "Passwords do not match"))
         /\ UNCHANGED users_db
    ELSE /\ users_db' = With(users_db, email,
                NewUser(Len(auth_calls) + 1, email, password))
         /\ auth_calls' = Append(auth_calls,
                AuthCall("register", email, IF redis_ok THEN 201 ELSE 500, ""))

\* lines 37-90: register. 400 when the passwords differ (47-51), 409 when the
\* e-mail is a key of users_db (54-59), else the user is stored (79) and
\* copied to Redis (82-88); there is no await between the test and the store.
\* An exception of the Redis client leaves the handler after the store
register(email, password, confirm_password, redis_ok) ==
    IF password # confirm_password
    THEN /\ auth_calls' = Append(auth_calls,
                AuthCall("register", email, 400, "Passwords do not match"))
         /\ UNCHANGED users_db
    ELSE IF email \in DOMAIN users_db
    THEN /\ auth_calls' = Append(auth_calls,
                AuthCall("register", email, 409, "Email already registered"))
         /\ UNCHANGED users_db
    ELSE /\ users_db' = With(users_db, email,
                NewUser(Len(auth_calls) + 1, email, password))
         /\ auth_calls' = Append(auth_calls,
                AuthCall("register", email, IF redis_ok THEN 201 ELSE 500, ""))

\* variant: an unknown e-mail is answered with 404
request_password_reset_Reveals(email) ==
    /\ auth_calls' = Append(auth_calls,
          IF email \notin DOMAIN users_db
          THEN AuthCall("request_password_reset", email, 404, "User not found")
          ELSE AuthCall("request_password_reset", email, 200,
                        "If the email exists, a reset link has been sent"))
    /\ UNCHANGED users_db

\* lines 299-310: request_password_reset returns the same message whether or
\* not the e-mail is a key of users_db
request_password_reset(email) ==
    /\ auth_calls' = Append(auth_calls,
          IF email \notin DOMAIN users_db
          THEN AuthCall("request_password_reset", email, 200,
                        "If the email exists, a reset link has been sent")
          ELSE AuthCall("request_password_reset", email, 200,
                        "If the email exists, a reset link has been sent"))
    /\ UNCHANGED users_db

OutsideAuth ==
    UNCHANGED <<fanout_vars, rate_counts, completion, stream_vars, limiter_vars,
                endpoint_vars, batch_vars>>

\* a client posts to /register
CallRegister(email, password, confirm_password) ==
    /\ Len(auth_calls) < MaxRequests + 2
    /\ \E redis_ok \in BOOLEAN : register(email, password, confirm_password, redis_ok)
    /\ OutsideAuth

\* a client posts to /reset-password
CallRequestPasswordReset(email) ==
    /\ Len(auth_calls) < MaxRequests + 2
    /\ request_password_reset(email)
    /\ OutsideAuth

NextAuth ==
    \/ \E email \in Emails, password, confirm_password \in Passwords :
          CallRegister(email, password, confirm_password)
    \/ \E email \in Emails : CallRequestPasswordReset(email)

SpecAuth == Init /\ [][NextAuth]_vars

----------------------------------------------------------------------------
(* batch_check_names (src/dashboard/batch.py lines 75-200) *)

\* names as a client may send them, as strings of characters: "Ac", " ac ",
\* "b" and a blank one
RawNames == { <<"A", "c">>, <<" ", "a", "c", " ">>, <<"b">>, <<" ">> }

\* the names lists of a request: 1 to MaxNames raw names (min_items = 1)
RawNameLists == UNION { [1..n -> RawNames] : n \in 1..MaxNames }

\* str.lower on the characters above
lower(name) == [i \in 1..Len(name) |-> IF name[i] = "A" THEN "a" ELSE name[i]]

\* str.strip: leading and trailing whitespace is dropped
RECURSIVE lstrip(_)
lstrip(name) ==
    IF name # <<>> /\ Head(name) = " " THEN lstrip(Tail(name)) ELSE name

RECURSIVE rstrip(_)
rstrip(name) ==
    IF name # <<>> /\ name[Len(name)] = " "
    THEN rstrip(SubSeq(name, 1, Len(name) - 1)) ELSE name

strip(name) == rstrip(lstrip(name))

\* the elements of a list
Range(list) == { list[i] : i \in 1..Len(list) }

\* variant: a name seen before is appended again
RECURSIVE CleanNames_KeepDuplicates(_, _)
CleanNames_KeepDuplicates(v, cleaned) ==
    IF v = <<>> THEN cleaned
    ELSE LET clean_name == strip(lower(Head(v)))
         IN  CleanNames_KeepDuplicates(Tail(v),
                 IF clean_name # <<>>
                 THEN Append(cleaned, clean_name) ELSE cleaned)

\* lines 25-32: the loop of validate_names over the names still to look at;
\* membership in cleaned is membership in seen
RECURSIVE CleanNames(_, _)
CleanNames(v, cleaned) ==
    IF v = <<>> THEN cleaned
    ELSE LET clean_name == strip(lower(Head(v)))
         IN  CleanNames(Tail(v),
                 IF clean_name # <<>> /\ clean_name \notin Range(cleaned)
                 THEN Append(cleaned, clean_name) ELSE cleaned)

\* lines 22-35: BatchCheckRequest.validate_names
\* error is the message of the ValueError raised, "" when none is
validate_names(v) ==
    LET cleaned == CleanNames(v, <<>>)
    IN  [cleaned |-> cleaned,
         error |-> IF cleaned = <<>> THEN "At least one valid name is required" ELSE ""]

\* the provider categories of the requests served
BatchProviders == <<"social">>

\* line 100: the cache key, "batch_check:" name ":" and the sorted provider
\* categories joined by "-"
cache_key(name, providers) == <<"batch_check:">> \o name \o <<":">> \o providers

\* whether a name is free at a provider; "b" is free everywhere
BatchAvailability(provider, name) ==
    IF name = <<"b">> THEN "true" ELSE ActualAvailability(provider, name)

\* a NameCheck of AvailabilityChecker.check_name; results lists the entries
\* in the order the nested dicts are iterated
BatchNameCheck(name, status, unknown) ==
    [id |-> <<"check", name>>, status |-> status,
     results |-> [i \in 1..Len(get_providers_in_group("social")) |->
                    LET provider == get_providers_in_group("social")[i]
                    IN  [category |-> "social", provider_name |-> provider,
                         available |-> IF provider \in unknown THEN "unknown"
                                       ELSE BatchAvailability(provider, name)]]]

\* AvailabilityChecker.check_name as check_single_name sees it: a NameCheck
\* with every answer, one with an unknown answer, or an exception
CheckNameReplies(name) ==
    { [kind |-> "returns", value |-> BatchNameCheck(name, CheckStatus.COMPLETE, {})],
      [kind |-> "returns", value |-> BatchNameCheck(name, CheckStatus.PENDING, {"instagram"})],
      [kind |-> "raises", value |-> Exception("check failed")] }

\* the first n elements of a list (list[:n])
Prefix(list, n) == SubSeq(list, 1, IF Len(list) < n THEN Len(list) ELSE n)

\* the provider names of the entries with the given answer, in order
RECURSIVE ProvidersWith(_, _)
ProvidersWith(entries, available) ==
    IF entries = <<>> THEN <<>>
    ELSE (IF Head(entries).available = available
          THEN <<Head(entries).provider_name>> ELSE <<>>)
         \o ProvidersWith(Tail(entries), available)

\* lines 107-133: the BatchCheckResult of a NameCheck; the percentage is in
\* tenths of a percent
BatchCheckResult(name, result) ==
    LET top_available == ProvidersWith(result.results, "true")
        top_taken == ProvidersWith(result.results, "false")
        available_count == Len(top_available)
        total_count == Len(result.results)
    IN  [name |-> name, status |-> result.status,
         available_count |-> available_count, total_count |-> total_count,
         availability_percentage |-> IF total_count > 0
                                     THEN Percentage(available_count, total_count)
                                     ELSE 0,
         top_available |-> Prefix(top_available, 5),
         top_taken |-> Prefix(top_taken, 5),
         check_id |-> result.id]

\* lines 141-152: the except branch evaluates CheckStatus.ERROR; CheckStatus
\* (models.py lines 22-27) has no such member, so building the error result
\* raises AttributeError out of check_single_name
ErrorResult(name) ==
    IF "ERROR" \in DOMAIN CheckStatus
    THEN [name |-> name, status |-> CheckStatus["ERROR"],
          available_count |-> 0, total_count |-> 0, availability_percentage |-> 0,
          top_available |-> <<>>, top_taken |-> <<>>, check_id |-> ""]
    ELSE Exception("AttributeError: ERROR")

\* a coroutine check_single_name(name) before it ran
NewBatchTask(name) ==
    [name |-> name, pc |-> "cache_get", hit |-> FALSE, reply |-> None, result |-> None]

RECURSIVE SumOf(_)
SumOf(numbers) == IF numbers = <<>> THEN 0 ELSE Head(numbers) + SumOf(Tail(numbers))

\* round(num / den, 1) for num in tenths: the nearest tenth, ties to even
RoundDiv(num, den) ==
    LET q == num \div den
        r == num % den
    IN  IF 2 * r > den THEN q + 1
        ELSE IF 2 * r < den THEN q
        ELSE IF q % 2 = 0 THEN q ELSE q + 1

\* max(results, key=...) and min(results, key=...): the first element with
\* the largest, the smallest percentage
FirstMax(results) ==
    results[CHOOSE i \in 1..Len(results) :
               /\ \A j \in 1..Len(results) :
                     results[j].availability_percentage <= results[i].availability_percentage
               /\ \A j \in 1..(i - 1) :
                     results[j].availability_percentage < results[i].availability_percentage]

FirstMin(results) ==
    results[CHOOSE i \in 1..Len(results) :
               /\ \A j \in 1..Len(results) :
                     results[j].availability_percentage >= results[i].availability_percentage
               /\ \A j \in 1..(i - 1) :
                     results[j].availability_percentage > results[i].availability_percentage]

\* lines 166-187: the batch summary
BatchSummary(results) ==
    [total_names_checked |-> Len(results),
     total_platforms_checked |-> SumOf([i \in 1..Len(results) |-> results[i].total_count]),
     total_available |-> SumOf([i \in 1..Len(results) |-> results[i].available_count]),
     average_availability |->
         IF results # <<>>
         THEN RoundDiv(SumOf([i \in 1..Len(results) |->
                                 results[i].availability_percentage]), Len(results))
         ELSE 0,
     best_availability |->
         IF results # <<>>
         THEN [name |-> FirstMax(results).name,
               percentage |-> FirstMax(results).availability_percentage]
         ELSE [name |-> None, percentage |-> 0],
     worst_availability |->
         IF results # <<>>
         THEN [name |-> FirstMin(results).name,
               percentage |-> FirstMin(results).availability_percentage]
         ELSE [name |-> None, percentage |-> 0]]

\* lines 193-200: the BatchCheckResponse
BatchCheckResponse(names, results) ==
    [status |-> 200, total_names |-> Len(names), results |-> results,
     summary |-> BatchSummary(results)]

\* variant: the results are taken in the order the coroutines finished
BatchGather_AsCompleted(coroutines, order) ==
    [k \in 1..Len(order) |-> coroutines[order[k]].result]

\* lines 157-158: asyncio.gather returns the results in the order of tasks
BatchGather(coroutines, order) ==
    [i \in 1..Len(coroutines) |-> coroutines[i].result]

\* lines 161-164: the loop appends each result when its check returned
BatchLoop(coroutines, order) ==
    [k \in 1..Len(order) |-> coroutines[order[k]].result]

OutsideBatch ==
    UNCHANGED <<fanout_vars, rate_counts, completion, stream_vars, limiter_vars,
                endpoint_vars, auth_vars>>

\* lines 75-94 and 155-162: the request is validated and the handler creates
\* the coroutines; a request without a usable name is refused by the
\* validator
StartBatch(raw, parallel) ==
    /\ batch.pc = "idle"
    /\ LET validated == validate_names(raw)
           names == validated.cleaned
       IN  IF validated.error # ""
           THEN batch' = [batch EXCEPT !.pc = "responded", !.raw = raw,
                                       !.parallel = parallel,
                                       !.response = [status |-> 422]]
           ELSE batch' = [batch EXCEPT !.pc = "running", !.raw = raw, !.names = names,
                                       !.parallel = parallel,
                                       !.tasks = [i \in 1..Len(names) |->
                                                     NewBatchTask(names[i])]]
    /\ OutsideBatch

\* the coroutine of the i-th name runs: all of them under gather, one after
\* the other in the loop, which ends at the first exception
BatchRunnable(i) ==
    /\ i \in 1..Len(batch.tasks)
    /\ IF batch.parallel THEN batch.pc \in {"running", "failed"}
       ELSE /\ batch.pc = "running"
            /\ \A j \in 1..(i - 1) : batch.tasks[j].pc = "done"

\* lines 100-103: await cache_manager.get(cache_key); a cached dict is
\* returned as the result
BatchCacheGet(i, read_ok) ==
    /\ BatchRunnable(i)
    /\ batch.tasks[i].pc = "cache_get"
    /\ LET key == cache_key(batch.tasks[i].name, BatchProviders)
       IN  IF read_ok /\ key \in DOMAIN batch.store
           THEN batch' = [batch EXCEPT !.tasks[i].pc = "done",
                                       !.tasks[i].hit = TRUE,
                                       !.tasks[i].result = batch.store[key],
                                       !.order = Append(@, i)]
           ELSE batch' = [batch EXCEPT !.tasks[i].pc = "check"]
    /\ OutsideBatch

\* lines 106-133 or 141-152: await checker.check_name(...) returns and the
\* result is summarised, or it raises and the except branch runs
BatchCheckName(i, reply) ==
    /\ BatchRunnable(i)
    /\ batch.tasks[i].pc = "check"
    /\ IF reply.kind = "returns"
       THEN batch' = [batch EXCEPT !.tasks[i].pc = "cache_set",
                                   !.tasks[i].reply = reply,
                                   !.tasks[i].result =
                                       BatchCheckResult(batch.tasks[i].name, reply.value)]
       ELSE LET error_result == ErrorResult(batch.tasks[i].name)
            IN  batch' = [batch EXCEPT !.tasks[i].pc =
                                           IF IsException(error_result)
                                           THEN "raised" ELSE "done",
                                       !.tasks[i].reply = reply,
                                       !.tasks[i].result = error_result,
                                       !.order = IF IsException(error_result)
                                                 THEN @ ELSE Append(@, i)]
    /\ OutsideBatch

\* lines 136-139: await cache_manager.set(cache_key, ...) and return
BatchCacheSet(i, write_ok) ==
    /\ BatchRunnable(i)
    /\ batch.tasks[i].pc = "cache_set"
    /\ LET key == cache_key(batch.tasks[i].name, BatchProviders)
       IN  batch' = [batch EXCEPT !.tasks[i].pc = "done",
                                  !.order = Append(@, i),
                                  !.store = IF write_ok
                                            THEN With(@, key, batch.tasks[i].result)
                                            ELSE @]
    /\ OutsideBatch

\* lines 158 or 163: the exception of a coroutine leaves gather, or the loop,
\* and the handler; the request fails
BatchRaises ==
    /\ batch.pc = "running"
    /\ \E i \in 1..Len(batch.tasks) : batch.tasks[i].pc = "raised"
    /\ batch' = [batch EXCEPT !.pc = "failed", !.response = [status |-> 500]]
    /\ OutsideBatch

\* lines 155-200: every coroutine returned; the handler builds the summary
\* and the response
BatchRespond ==
    /\ batch.pc = "running"
    /\ \A i \in 1..Len(batch.tasks) : batch.tasks[i].pc = "done"
    /\ LET results == IF batch.parallel THEN BatchGather(batch.tasks, batch.order)
                      ELSE BatchLoop(batch.tasks, batch.order)
       IN  batch' = [batch EXCEPT !.pc = "responded",
                                  !.response = BatchCheckResponse(batch.names, results)]
    /\ OutsideBatch

\* the entries a batch request served before may have left in the cache
CachedBefore ==
    { <<>>,
      cache_key(<<"a", "c">>, BatchProviders) :>
          BatchCheckResult(<<"a", "c">>,
                           BatchNameCheck(<<"a", "c">>, CheckStatus.COMPLETE, {})) }

InitBatch ==
    /\ FanoutIdle
    /\ cache = [k \in Providers \X Names |-> None]
    /\ rate_counts = [p \in Providers |-> 0]
    /\ requests_made = 0
    /\ StreamIdle
    /\ LimiterIdle
    /\ EndpointIdle
    /\ \E store \in CachedBefore : batch = NoBatch(store)
    /\ AuthIdle

NextBatch ==
    \/ \E raw \in RawNameLists, parallel \in BOOLEAN : StartBatch(raw, parallel)
    \/ \E i \in 1..Len(batch.tasks), read_ok \in BOOLEAN : BatchCacheGet(i, read_ok)
    \/ \E i \in 1..Len(batch.tasks) :
          \E reply \in CheckNameReplies(batch.tasks[i].name) : BatchCheckName(i, reply)
    \/ \E i \in 1..Len(batch.tasks), write_ok \in BOOLEAN : BatchCacheSet(i, write_ok)
    \/ BatchRaises
    \/ BatchRespond

SpecBatch == InitBatch /\ [][NextBatch]_vars

----------------------------------------------------------------------------
(* Properties *)

Returned == phase = "returned"

TaskIds == 1..Len(tasks)

\* the entry of the returned NameCheck under the key of task i
ResultAt(i) == name_check.results[task_metadata[i].group][task_metadata[i].provider]

TaskKeys == { <<task_metadata[i].group, task_metadata[i].provider>> : i \in TaskIds }

OverallTimeoutResult(i) ==
    ProviderResult(task_metadata[i].provider, request.name, "unknown",
                   "Request timeout - check took longer than 10 seconds")

\* what a task that has returned must have returned, told from what it was
\* answered by the rate limiter, the cache and the provider
OwnOutcome(i) ==
    LET t == tasks[i]
        prov == task_metadata[i].provider
    IN  IF ~t.admitted
        THEN ProviderResult(prov, request.name, "unknown", "Rate limit exceeded")
        ELSE IF t.cached # None THEN t.cached
        ELSE IF t.reply = "returns"
        THEN ProviderResult(prov, request.name, ActualAvailability(prov, request.name), "")
        ELSE IF t.reply = "timeout"
        THEN ProviderResult(prov, request.name, "unknown", "Request timeout")
        ELSE ProviderResult(prov, request.name, "unknown", "connector failure")

\* C1: when the overall timeout fires, every task that had settled keeps its
\* real ProviderResult in the returned NameCheck and only the tasks that had
\* not settled are reported as unknown with the timeout error.
C1_SettledKeepResultOnTimeout ==
    (Returned /\ timed_out) =>
        \A i \in TaskIds :
            IF i \in settled
            THEN ResultAt(i) = tasks[i].result
            ELSE ResultAt(i) = OverallTimeoutResult(i)

\* C2: the returned NameCheck.results holds exactly one ProviderResult for
\* every resolved (group, provider) pair, whatever the tasks' outcomes and
\* whether or not the overall timeout fired.
C2_OneResultPerPair ==
    Returned =>
        /\ Entries(name_check.results) = TaskKeys
        /\ Cardinality(Entries(name_check.results)) = Len(task_metadata)
        /\ \A e \in Entries(name_check.results) :
              /\ ~IsException(name_check.results[e[1]][e[2]])
              /\ name_check.results[e[1]][e[2]].provider = e[2]

\* a batch of three tasks that ended in a rate-limit rejection, a per-call
\* timeout and a connector exception
C2_Witness ==
    /\ Returned /\ ~timed_out /\ Len(tasks) = 3
    /\ \E i \in TaskIds : ~tasks[i].admitted
    /\ \E i \in TaskIds : tasks[i].reply = "timeout"
    /\ \E i \in TaskIds : tasks[i].reply = "raises"

\* the provider call of task i failed: it raised or ran into the per-call timeout
InvokeFailed(i) == tasks[i].pc = "done" /\ tasks[i].reply \in {"raises", "timeout"}

\* C3: a failed provider task does not abort the batch: the NameCheck is
\* returned, that provider is unknown with an error text, and (the batch not
\* being cut by the overall timeout) every provider has the result of its own
\* task.
C3_FailureContained ==
    Returned =>
        \A i \in TaskIds :
            InvokeFailed(i) =>
                /\ ResultAt(i).available = "unknown"
                /\ ResultAt(i).error # ""
                /\ ~timed_out =>
                      \A j \in TaskIds : ResultAt(j) = OwnOutcome(j)

\* one provider raised and another provider's real answer is in the NameCheck
C3_Witness ==
    /\ Returned /\ ~timed_out
    /\ \E i, j \in TaskIds :
          /\ tasks[i].reply = "raises"
          /\ tasks[j].reply = "returns"
          /\ ResultAt(j).available \in {"true", "false"}

\* the rate limiter turned task i down
RateLimited(i) == tasks[i].pc = "done" /\ ~tasks[i].admitted

\* C4: a task turned down by the rate limiter returns unknown with
\* "Rate limit exceeded" and has neither read nor written the cache nor
\* called the provider.
C4_RateLimitRejection ==
    \A i \in TaskIds :
        RateLimited(i) =>
            /\ tasks[i].result = ProviderResult(task_metadata[i].provider, request.name,
                                                "unknown", "Rate limit exceeded")
            /\ tasks[i].cache_reads = 0
            /\ tasks[i].cache_writes = 0
            /\ tasks[i].invokes = 0
            /\ (Returned /\ ~timed_out) => ResultAt(i) = tasks[i].result

\* a returned batch with a rate-limited provider next to an answered one
C4_Witness ==
    /\ Returned /\ ~timed_out
    /\ \E i, j \in TaskIds : RateLimited(i) /\ tasks[j].reply = "returns"

\* C5: a task whose provider call ran into the per-call timeout returns
\* unknown with "Request timeout", writes nothing to the cache, and leaves
\* the other providers' results what their own tasks produced.
C5_PerCallTimeout ==
    \A i \in TaskIds :
        tasks[i].reply = "timeout" =>
            /\ tasks[i].pc = "done"
            /\ tasks[i].result = ProviderResult(task_metadata[i].provider, request.name,
                                                "unknown", "Request timeout")
            /\ tasks[i].cache_writes = 0
            /\ (Returned /\ ~timed_out) =>
                  \A j \in TaskIds : ResultAt(j) = OwnOutcome(j)

\* the example of the specification: one provider answered false, the other
\* one timed out
C5_Witness ==
    /\ Returned /\ ~timed_out /\ Len(tasks) = 2
    /\ tasks[1].reply = "returns" /\ ResultAt(1).available = "false"
    /\ tasks[2].reply = "timeout" /\ ResultAt(2).error = "Request timeout"
    /\ name_check.summary.unavailable = 1 /\ name_check.summary.pending = 1

CacheKey(i) == <<task_metadata[i].provider, request.name>>

\* C6: on a cache hit (the rate limiter having admitted the task) the
\* provider is not called, the cache is not written, and the ProviderResult
\* of that provider in NameCheck.results is the cached value unchanged.
C6_CacheHitShortCircuits ==
    \A i \in TaskIds :
        tasks[i].cached # None =>
            /\ tasks[i].admitted
            /\ tasks[i].pc = "done"
            /\ tasks[i].invokes = 0
            /\ tasks[i].cache_writes = 0
            /\ tasks[i].result = tasks[i].cached
            /\ cache[CacheKey(i)] = tasks[i].cached
            /\ (Returned /\ ~timed_out) => ResultAt(i) = tasks[i].cached

\* a returned batch in which one provider was served from the cache
C6_Witness ==
    /\ Returned /\ ~timed_out
    /\ \E i \in TaskIds :
          /\ tasks[i].cached # None
          /\ ResultAt(i) = tasks[i].cached
          /\ ResultAt(i).available \in {"true", "false"}

\* set_availability was called by task i and the store holds no entry: the
\* write was lost
LostWrite(i) == tasks[i].cache_writes = 1 /\ cache[CacheKey(i)] = None

\* the store holds an entry that task i has not written, and the lookup of
\* task i answered None: the read was lost
LostRead(i) ==
    /\ tasks[i].cache_reads = 1 /\ tasks[i].cached = None
    /\ tasks[i].cache_writes = 0 /\ cache[CacheKey(i)] # None

C8_TerminalStatus ==
    Returned =>
        name_check.status \in {CheckStatus.COMPLETE, CheckStatus.PARTIAL, CheckStatus.FAILED}

\* C9: the returned NameCheck is complete exactly when every task settled
\* before the overall timeout, whatever the tasks' outcomes, and partial
\* exactly when the overall timeout cut the batch.
C9_CompleteIffAllSettled ==
    Returned =>
        /\ (name_check.status = CheckStatus.COMPLETE) <=> ~timed_out
        /\ (name_check.status = CheckStatus.PARTIAL) <=> timed_out

\* C10: in every returned NameCheck total_checked is the sum of available,
\* unavailable and pending, and overall_score lies between 0 and 1.
C10_SummaryInvariant ==
    Returned =>
        LET summary == name_check.summary
        IN  /\ summary.total_checked =
                  summary.available + summary.unavailable + summary.pending
            /\ summary.overall_score.den > 0
            /\ 0 <= summary.overall_score.num
            /\ summary.overall_score.num <= summary.overall_score.den

\* a returned NameCheck with an available, an unavailable and an unknown
\* provider
C10_Witness ==
    /\ Returned
    /\ name_check.summary.available >= 1
    /\ name_check.summary.unavailable >= 1
    /\ name_check.summary.pending >= 1

----------------------------------------------------------------------------
(* The rate limiter under concurrent callers *)

\* line 62: a task of some request calls rate_limiter.check_rate_limit and is
\* suspended at the await
CallCheckRateLimit(provider) ==
    /\ Len(limiter_calls) < MaxCallers
    /\ limiter_calls' = Append(limiter_calls, [provider |-> provider, answer |-> "waiting"])
    /\ UNCHANGED <<fanout_vars, rate_counts, completion, stream_vars, admitted_in_window,
                   endpoint_vars, batch_vars, auth_vars>>

\* the limiter answers one caller: the test of the quota and the increment
\* of the provider's counter are one step, exclusive per provider key
AnswerCheckRateLimit(c) ==
    /\ limiter_calls[c].answer = "waiting"
    /\ LET provider == limiter_calls[c].provider
           admit == check_rate_limit(rate_counts, provider)
       IN  /\ rate_counts' = count_rate_limit(rate_counts, provider)
           /\ admitted_in_window' =
                 IF admit THEN [admitted_in_window EXCEPT ![provider] = @ + 1]
                 ELSE admitted_in_window
           /\ limiter_calls' =
                 [limiter_calls EXCEPT ![c].answer = IF admit THEN "true" ELSE "false"]
    /\ UNCHANGED <<fanout_vars, completion, stream_vars, endpoint_vars, batch_vars,
                   auth_vars>>

\* the window of a provider runs out and a new one begins
LimiterWindowExpire(provider) ==
    /\ WindowExpire(provider)
    /\ admitted_in_window' = [admitted_in_window EXCEPT ![provider] = 0]
    /\ UNCHANGED <<completion, stream_vars, limiter_calls, endpoint_vars, batch_vars,
                   auth_vars>>

NextLimiter ==
    \/ \E provider \in Providers : CallCheckRateLimit(provider)
    \/ \E c \in 1..Len(limiter_calls) : AnswerCheckRateLimit(c)
    \/ \E provider \in Providers : LimiterWindowExpire(provider)

SpecLimiter == Init /\ [][NextLimiter]_vars

----------------------------------------------------------------------------
(* Properties *)

\* the number of tasks whose entry in the returned results has the given
\* availability
CountAvailable(value) ==
    Cardinality({ i \in TaskIds : ResultAt(i).available = value })

\* C11: the summary of a returned NameCheck is the one computed from its
\* results: total_checked is the number of entries, available, unavailable and
\* pending count the entries with available true, false and unknown, and
\* overall_score is available / total_checked, or 0.0 without entries.
C11_SummaryFromResults ==
    Returned =>
        LET summary == name_check.summary
        IN  /\ summary.total_checked = Len(task_metadata)
            /\ summary.available = CountAvailable("true")
            /\ summary.unavailable = CountAvailable("false")
            /\ summary.pending = CountAvailable("unknown")
            /\ summary.overall_score =
                  IF Len(task_metadata) = 0 THEN [num |-> 0, den |-> 1]
                  ELSE [num |-> CountAvailable("true"), den |-> Len(task_metadata)]

\* three providers, two of them available and one unknown: score 2/3
C11_Witness ==
    /\ Returned /\ Len(tasks) = 3
    /\ name_check.summary.available = 2
    /\ name_check.summary.pending = 1
    /\ name_check.summary.overall_score = [num |-> 2, den |-> 3]

\* the results mapping told from the tasks' outcomes alone, whatever the
\* order in which the tasks returned
ExpectedResults ==
    [g \in { task_metadata[i].group : i \in TaskIds } |->
        [p \in { task_metadata[i].provider : i \in { j \in TaskIds : task_metadata[j].group = g } } |->
            LET i == CHOOSE j \in TaskIds :
                         task_metadata[j].group = g /\ task_metadata[j].provider = p
            IN  IF timed_out THEN OverallTimeoutResult(i) ELSE OwnOutcome(i)]]

\* C12: the merged results do not depend on the order in which the tasks
\* return: every key maps to the outcome of the task created for that group
\* and provider, and results and summary are those of the outcomes alone.
C12_MergeIgnoresCompletionOrder ==
    Returned =>
        /\ name_check.results = ExpectedResults
        /\ name_check.summary = calculate_summary(ExpectedResults)

\* a later task returned before an earlier one, with a different outcome
C12_Witness ==
    /\ Returned /\ ~timed_out /\ Len(completion) = 3
    /\ completion[1] = 3 /\ completion[2] = 1
    /\ tasks[1].result # tasks[3].result
    /\ tasks[1].result.available # tasks[3].result.available

\* the steps task i may take from one state to the next
TaskStepAllowed(t, u) ==
    \/ u = t
    \/ u.pc = "cancelled"
    \/ /\ t.pc = "rate_limit" /\ u.pc \in {"cache_get", "done"}
       /\ u.cache_reads = 0 /\ u.invokes = 0 /\ u.cache_writes = 0
    \/ /\ t.pc = "cache_get" /\ u.pc \in {"invoke", "done"}
       /\ u.cache_reads = 1 /\ u.invokes = 0 /\ u.cache_writes = 0
       /\ (u.pc = "invoke") <=> (u.cached = None)
    \/ /\ t.pc = "invoke" /\ u.pc \in {"cache_set", "done"}
       /\ u.cache_reads = 1 /\ u.invokes = 1 /\ u.cache_writes = 0
       /\ (u.pc = "cache_set") <=> (u.reply = "returns")
    \/ /\ t.pc = "cache_set" /\ u.pc = "done"
       /\ u.cache_reads = 1 /\ u.invokes = 1 /\ u.cache_writes = 1
       /\ u.reply = "returns"

\* C13: within a task the steps are taken in the order rate-limit check,
\* cache lookup, provider call, cache write, each at most once; the cache is
\* written only after a call that returned in time and the provider is called
\* only after a cache miss.
C13_TaskStepOrder ==
    [][phase = "gather" =>
          /\ \A i \in TaskIds : TaskStepAllowed(tasks[i], tasks'[i])
          /\ cache' # cache =>
                \E i \in TaskIds :
                    /\ tasks[i].pc = "cache_set" /\ tasks[i].reply = "returns"
                    /\ tasks'[i].cache_writes = 1]_vars

\* a task that went through all four steps
C13_Witness ==
    \E i \in TaskIds :
        /\ tasks[i].pc = "done" /\ tasks[i].admitted
        /\ tasks[i].cache_reads = 1 /\ tasks[i].invokes = 1 /\ tasks[i].cache_writes = 1
        /\ cache[CacheKey(i)] = tasks[i].result

C15_QuotaNeverExceeded ==
    /\ [](\A p \in Providers :
             /\ admitted_in_window[p] <= PROVIDER_RATE_LIMITS[p]
             /\ rate_counts[p] = admitted_in_window[p])
    /\ [][\A c \in 1..Len(limiter_calls) :
             (limiter_calls[c].answer = "waiting" /\ limiter_calls'[c].answer # "waiting") =>
                LET p == limiter_calls[c].provider
                IN  rate_counts'[p] =
                       rate_counts[p] + (IF limiter_calls'[c].answer = "true" THEN 1 ELSE 0)]_vars

\* three callers waited for the same provider of quota 1 at once; one was
\* admitted and the others were refused
C15_Witness ==
    /\ Len(limiter_calls) >= 3
    /\ \A c \in 1..3 : limiter_calls[c].provider = "instagram"
    /\ limiter_calls[1].answer = "false"
    /\ limiter_calls[2].answer = "true"
    /\ limiter_calls[3].answer = "false"
    /\ admitted_in_window["instagram"] = 1

\* the positions in outbox of the messages of a type about a session
EventsOf(type, session_id) ==
    { i \in 1..Len(outbox) :
        /\ outbox[i].message.type = type
        /\ outbox[i].message.session_id = session_id }

\* the session ids handed out so far
SessionIds == 1..Len(runs)

\* session_started comes before every progress_update of the session
StartedBeforeProgress ==
    \A sid \in SessionIds : \A i \in EventsOf("progress_update", sid) :
        \E j \in EventsOf("session_started", sid) : j < i

\* no progress_update of a session comes after its session_complete
NoProgressAfterComplete ==
    \A sid \in SessionIds : \A i \in EventsOf("progress_update", sid) :
        \A j \in EventsOf("session_complete", sid) : i < j

\* C16: the events of a streaming check are ordered: session_started is
\* sent before any progress_update of the session and session_complete after
\* the last one; no progress_update of a session follows its
\* session_complete.
C16_EventsOrdered ==
    /\ StartedBeforeProgress
    /\ NoProgressAfterComplete

\* the number of provider tasks of the check that started the session
TasksOf(session_id) == Cardinality(CheckTasks(runs[session_id].providers))

\* C17: for a check with n provider tasks session_started reports
\* total_checks = n and the k-th progress_update of the session reports
\* completed = k, total = n and percentage = 100 * k / n rounded to one
\* decimal, so that the last percentage is 100.0.
C17_ProgressCountsTasks ==
    \A sid \in SessionIds :
        /\ \A i \in EventsOf("session_started", sid) :
              outbox[i].message.total = TasksOf(sid)
        /\ \A i \in EventsOf("progress_update", sid) :
              LET k == Cardinality({ j \in EventsOf("progress_update", sid) : j <= i })
              IN  /\ outbox[i].message.completed = k
                  /\ outbox[i].message.total = TasksOf(sid)
                  /\ outbox[i].message.percentage = Percentage(k, TasksOf(sid))

\* C18: while a session is active every update_check_progress raises
\* completed_checks by one and emits one progress_update with the new value,
\* so completed_checks equals the number of progress_update events produced
\* for the session.
C18_CompletedCountsUpdates ==
    \A client_id \in DOMAIN check_sessions :
        LET session == check_sessions[client_id]
        IN  /\ session.completed_checks =
                  Cardinality(EventsOf("progress_update", session.session_id))
            /\ \A i \in EventsOf("progress_update", session.session_id) :
                  outbox[i].message.completed <= session.completed_checks

\* C19: once complete_check_session is over no session of the client is
\* left in check_sessions, and update_check_progress or
\* complete_check_session called for a client without a session send nothing
\* and change nothing.
C19_SessionGoneAfterComplete ==
    [][\A r \in 1..Len(runs) :
          LET client_id == runs[r].client_id
              update == runs[r].pc = "checking" /\ runs'[r].unreported # runs[r].unreported
              complete == runs[r].pc = "checking" /\ runs'[r].pc \in {"completing", "returned"}
          IN  /\ (runs[r].pc = "completing" /\ runs'[r].pc # "completing") =>
                    client_id \notin DOMAIN check_sessions'
              /\ ((update \/ complete) /\ client_id \notin DOMAIN check_sessions) =>
                    UNCHANGED <<check_sessions, outbox, active_connections>>
              /\ (complete /\ client_id \notin DOMAIN check_sessions) =>
                    runs'[r].pc = "returned"]_vars

\* a check sent session_complete and its session was deleted; the provider
\* tasks of the client's other check settled afterwards and that check
\* returned, and session_complete is still the last message
C19_Witness ==
    /\ Len(runs) = 2
    /\ \A r \in 1..2 : runs[r].pc = "returned" /\ runs[r].unreported = {}
    /\ runs[1].client_id = runs[2].client_id
    /\ runs[1].client_id \notin DOMAIN check_sessions
    /\ Len(outbox) > 0
    /\ outbox[Len(outbox)].message.type = "session_complete"
    /\ Cardinality({ i \in 1..Len(outbox) : outbox[i].message.type = "progress_update" }) = 1

\* C20: after check_with_updates is over, by returning or by raising,
\* check_sessions holds no entry for the client.
C20_SessionDestroyedAtEnd ==
    \A client_id \in Clients :
        LET mine == { r \in 1..Len(runs) : runs[r].client_id = client_id }
        IN  (mine # {} /\ \A r \in mine : runs[r].pc \in {"returned", "raised"}) =>
                client_id \notin DOMAIN check_sessions

\* the client has been connected on one WebSocket since the session of the
\* check was started
ConnectedSinceStart(r) ==
    /\ runs[r].client_id \in DOMAIN active_connections
    /\ \E i \in EventsOf("session_started", runs[r].session_id) :
          outbox[i].ws = active_connections[runs[r].client_id]

\* C21: when the check function raises, exactly one error event with the
\* session_id and the failure text is sent to the client, no
\* session_complete is sent for that session, and the exception goes on to
\* the caller.
C21_ErrorReported ==
    \A r \in 1..Len(runs) :
        (runs[r].pc = "raised" /\ runs[r].exception = "check failed") =>
            LET errors == EventsOf("error", runs[r].session_id)
            IN  /\ Cardinality(errors) <= 1
                /\ ConnectedSinceStart(r) => Cardinality(errors) = 1
                /\ \A i \in errors :
                      /\ outbox[i].message.error = runs[r].exception
                      /\ outbox[i].message.client = runs[r].client_id
                /\ EventsOf("session_complete", runs[r].session_id) = {}

\* the step is a call of disconnect(client_id)
IsDisconnect(client_id) ==
    /\ runs' = runs
    /\ client_id \in DOMAIN active_connections \cup DOMAIN check_sessions
    /\ client_id \notin DOMAIN active_connections'

\* C22: disconnect(client_id) removes the connection and the session of the
\* client; while the client has neither, the provider tasks of its check in
\* flight that settle, its completion and its failure send nothing and change
\* nothing, and no message is ever sent for a client without a connection.
C22_SilentAfterDisconnect ==
    [][/\ \A client_id \in Clients :
             IsDisconnect(client_id) =>
                /\ client_id \notin DOMAIN check_sessions'
                /\ outbox' = outbox
       /\ \A r \in 1..Len(runs) :
             (/\ runs'[r] # runs[r]
              /\ runs[r].client_id \notin DOMAIN active_connections
              /\ runs[r].client_id \notin DOMAIN check_sessions) =>
                UNCHANGED <<check_sessions, active_connections, outbox>>
       /\ outbox' # outbox =>
             /\ Len(outbox') = Len(outbox) + 1
             /\ outbox'[Len(outbox')].message.client \in DOMAIN active_connections']_vars

\* the client disconnected while its check was in flight; the provider task
\* settled and the check returned afterwards, and nothing but connected and
\* session_started was ever sent
C22_Witness ==
    /\ Len(runs) = 1
    /\ runs[1].pc = "returned" /\ runs[1].unreported = {}
    /\ EventsOf("session_started", 1) # {}
    /\ runs[1].client_id \notin DOMAIN active_connections
    /\ \A i \in 1..Len(outbox) : outbox[i].message.type \in {"connected", "session_started"}

\* C30: checks of one client_id that overlap do not interfere: the
\* progress_update and session_complete events carry the session_id of the
\* check that produced them, so a session gets no more progress_update events
\* than its check has provider tasks, and every started session whose check
\* returned gets exactly one session_complete.
C30_SessionsIndependent ==
    \A r \in 1..Len(runs) :
        LET sid == runs[r].session_id
        IN  /\ Cardinality(EventsOf("progress_update", sid)) <= TasksOf(sid)
            /\ (runs[r].pc = "returned" /\ ConnectedSinceStart(r)) =>
                  Cardinality(EventsOf("session_complete", sid)) = 1

C26_CompleteIffAllDefinite ==
    Returned =>
        LET results == name_check.results
            definite == \A e \in Entries(results) :
                            results[e[1]][e[2]].available \in {"true", "false"}
        IN  /\ name_check.status =
                  IF definite THEN CheckStatus.COMPLETE ELSE CheckStatus.PENDING
            /\ request.providers = <<>> =>
                  /\ name_check.status = CheckStatus.COMPLETE
                  /\ Entries(results) = {}
                  /\ name_check.summary.total_checked = 0
                  /\ name_check.summary.overall_score = [num |-> 0, den |-> 1]

\* a request without provider groups has returned
C26_Witness ==
    /\ Returned
    /\ request.providers = <<>>
    /\ name_check.status = CheckStatus.COMPLETE
    /\ name_check.results = <<>>

\* C23: every event is sent on exactly one connection, the one stored for the
\* client the event is about, which no other client shares; an event of a
\* session is about the client whose check started the session.
C23_EventsReachOwnClient ==
    [][/\ Len(outbox') <= Len(outbox) + 1
       /\ \A a, b \in DOMAIN active_connections' :
             a # b => active_connections'[a] # active_connections'[b]
       /\ \A i \in (Len(outbox) + 1)..Len(outbox') :
             LET event == outbox'[i]
                 client == event.message.client
             IN  /\ client \in DOMAIN active_connections'
                 /\ event.ws = active_connections'[client]
                 /\ event.message.type # "connected" =>
                       /\ event.message.session_id \in 1..Len(runs')
                       /\ runs'[event.message.session_id].client_id = client]_vars

\* two clients on two connections, a progress_update sent to one and a
\* session_complete to the other
C23_Witness ==
    \E i, j \in 1..Len(outbox) :
        /\ outbox[i].message.type = "progress_update"
        /\ outbox[j].message.type = "session_complete"
        /\ outbox[i].message.client # outbox[j].message.client
        /\ outbox[i].ws # outbox[j].ws
        /\ DOMAIN active_connections = TwoClients

\* C28: in every progress_update sent, completed is at least 1 and at most
\* total, and the percentage (in tenths of a percent) is above 0 and at most
\* 100, however many provider tasks settle during the check.
C28_ProgressWithinTotal ==
    \A i \in 1..Len(outbox) :
        outbox[i].message.type = "progress_update" =>
            /\ 1 <= outbox[i].message.completed
            /\ outbox[i].message.completed <= outbox[i].message.total
            /\ 0 < outbox[i].message.percentage
            /\ outbox[i].message.percentage <= 1000

\* C29: every session has total_checks of at least 1, and no call of
\* update_check_progress fails while computing the percentage.
C29_TotalChecksPositive ==
    /\ \A client_id \in DOMAIN check_sessions :
          check_sessions[client_id].total_checks >= 1
    /\ \A r \in 1..Len(runs) : ~runs[r].update_failed

\* the call was made with a name or a provider that the boundary refuses
Refused(call) ==
    ~validate_name(call.name) \/ ~is_valid_provider(call.provider)

\* C25: a call with a name that is not 2-50 characters of [a-zA-Z0-9_-], or
\* with an unknown provider, is rejected before anything runs: it consumes no
\* rate-limit counter, reads and writes no cache entry and invokes no provider.
C25_RejectedBeforeCore ==
    \A i \in 1..Len(endpoint_calls) :
        LET call == endpoint_calls[i]
        IN  Refused(call) =>
                /\ call.status = 400
                /\ ~call.rate_checked
                /\ ~call.cache_read
                /\ ~call.invoked
                /\ ~call.cache_written

\* C27: no cache entry holds a ProviderResult with available unknown and an
\* error.
C27_NoErrorInCache ==
    \A k \in DOMAIN cache :
        cache[k] # None => ~(cache[k].available = "unknown" /\ cache[k].error # "")

\* C31: a check takes its error path only when its check function raised; a
\* disconnect while complete_check_session is suspended in the send does not
\* make complete_check_session raise, and the check then returns its result.
C31_CompleteSurvivesDisconnect ==
    \A r \in 1..Len(runs) :
        /\ runs[r].pc = "raised" => runs[r].exception = "check failed"
        /\ runs[r].exception # "KeyError"

\* C32: every session in check_sessions belongs to a client that has a
\* connection in active_connections.
C32_SessionsOfConnectedClients ==
    DOMAIN check_sessions \subseteq DOMAIN active_connections

\* the calls of an endpoint
CallsOf(endpoint) == { i \in 1..Len(auth_calls) : auth_calls[i].endpoint = endpoint }

\* the store as the i-th call left it
StoreAfter(i) == IF i = Len(auth_calls) THEN users_db ELSE auth_calls[i + 1].before

\* C37: a register call for an e-mail already in users_db is answered 409 and
\* one with differing passwords 400, both leaving users_db as it was; every
\* call leaves the users stored before it as they were, a stored user carries
\* the e-mail it is stored under, and no two stored users share an id.
C37_RegisterKeepsAccounts ==
    /\ \A i \in CallsOf("register") :
          LET call == auth_calls[i]
          IN  /\ call.status \in {400, 409} => StoreAfter(i) = call.before
              /\ call.registered => call.status \in {400, 409}
              /\ call.status = 409 => call.registered
              /\ \A email \in DOMAIN call.before :
                    /\ email \in DOMAIN StoreAfter(i)
                    /\ StoreAfter(i)[email] = call.before[email]
    /\ \A email \in DOMAIN users_db : users_db[email].email = email
    /\ \A a, b \in DOMAIN users_db : users_db[a].id = users_db[b].id => a = b

\* a second registration of a stored e-mail with another password was refused
C37_Witness ==
    \E i, j \in CallsOf("register") :
        /\ i < j
        /\ auth_calls[i].email = auth_calls[j].email
        /\ auth_calls[i].status = 201
        /\ auth_calls[j].status = 409
        /\ users_db[auth_calls[i].email].id = i
        /\ Cardinality(DOMAIN users_db) = 2

\* C38: the response of request_password_reset is the same whether or not the
\* e-mail is registered, and the call leaves users_db unchanged.
C38_ResetRevealsNothing ==
    /\ \A i, j \in CallsOf("request_password_reset") :
          /\ auth_calls[i].status = auth_calls[j].status
          /\ auth_calls[i].message = auth_calls[j].message
    /\ \A i \in CallsOf("request_password_reset") : StoreAfter(i) = auth_calls[i].before

\* the same e-mail was asked for before and after it was registered
C38_Witness ==
    \E i, j \in CallsOf("request_password_reset") :
        /\ auth_calls[i].email = auth_calls[j].email
        /\ ~auth_calls[i].registered
        /\ auth_calls[j].registered

\* C36: a call of GET /check/{provider}/{name} with a provider that is not
\* registered is answered 400 and leaves the limiter's counters and the cache
\* as they were; a call the limiter refuses is answered 429 without a cache
\* read, a provider call or a change of the cache; a call answered from the
\* cache found an entry, invokes no provider and leaves the cache as it was.
C36_SingleProviderShortCircuits ==
    [][\A call \in [endpoint : {"check_single_provider"}, provider : EndpointProviders,
                    name : EndpointNames, rate_checked : BOOLEAN, cache_read : BOOLEAN,
                    invoked : BOOLEAN, cache_written : BOOLEAN,
                    status : {200, 400, 429, 500}] :
          endpoint_calls' = Append(endpoint_calls, call) =>
              /\ ~is_valid_provider(call.provider) =>
                    /\ call.status = 400
                    /\ ~call.rate_checked
                    /\ rate_counts' = rate_counts
                    /\ cache' = cache
              /\ (is_valid_provider(call.provider)
                    /\ ~check_rate_limit(rate_counts, call.provider)) =>
                    /\ call.status = 429
                    /\ ~call.cache_read /\ ~call.invoked /\ ~call.cache_written
                    /\ cache' = cache
              /\ (call.status = 200 /\ ~call.invoked) =>
                    /\ cache[<<call.provider, call.name>>] # None
                    /\ ~call.cache_written
                    /\ cache' = cache
              /\ call.invoked =>
                    /\ is_valid_provider(call.provider)
                    /\ check_rate_limit(rate_counts, call.provider)]_vars

\* a call was refused by the limiter while the cache held an entry for its
\* provider and name, written by the call before it
C36_Witness ==
    /\ Len(endpoint_calls) = 2
    /\ endpoint_calls[1].endpoint = "check_single_provider"
    /\ endpoint_calls[1].cache_written
    /\ endpoint_calls[2].endpoint = "check_single_provider"
    /\ endpoint_calls[2].status = 429
    /\ endpoint_calls[2].provider = endpoint_calls[1].provider
    /\ endpoint_calls[2].name = endpoint_calls[1].name
    /\ cache[<<endpoint_calls[2].provider, endpoint_calls[2].name>>] # None

\* the coroutines check_single_name of the batch request
BatchTaskIds == 1..Len(batch.tasks)

\* the check of the i-th name failed
CheckFailed(i) ==
    /\ batch.tasks[i].reply # None
    /\ batch.tasks[i].reply.kind = "raises"

\* C33: check_single_name never raises; a name whose check failed gets a
\* result with an error status and zero counts, the batch request is
\* answered, and the response holds that result and the own results of the
\* other names.
C33_NameFailureContained ==
    /\ batch.pc # "failed"
    /\ \A i \in BatchTaskIds :
          /\ batch.tasks[i].pc # "raised"
          /\ CheckFailed(i) =>
                /\ batch.tasks[i].pc = "done"
                /\ batch.tasks[i].result.name = batch.tasks[i].name
                /\ batch.tasks[i].result.status = "error"
                /\ batch.tasks[i].result.available_count = 0
                /\ batch.tasks[i].result.total_count = 0
    /\ (batch.pc = "responded" /\ batch.response.status = 200) =>
          \A i \in BatchTaskIds : batch.response.results[i] = batch.tasks[i].result

\* what lower() and strip() make of the names a client may send
Normalised(raw_name) ==
    IF raw_name \in {<<"A", "c">>, <<" ", "a", "c", " ">>} THEN <<"a", "c">>
    ELSE IF raw_name = <<"b">> THEN <<"b">>
    ELSE <<>>

\* the position at which a normalised name first occurs in the request
FirstOccurrence(name) ==
    CHOOSE k \in 1..Len(batch.raw) :
        /\ Normalised(batch.raw[k]) = name
        /\ \A j \in 1..(k - 1) : Normalised(batch.raw[j]) # name

\* C34: the names of a batch request are the distinct non-empty lower-case,
\* stripped names of the request in the order of their first occurrence, and
\* the response holds one result per name in that order, total_names being
\* the number of names and of results.
C34_OneResultPerDistinctName ==
    /\ batch.pc # "idle" =>
          /\ Range(batch.names) = { Normalised(batch.raw[k]) : k \in 1..Len(batch.raw) } \ {<<>>}
          /\ \A i, j \in 1..Len(batch.names) :
                i < j => FirstOccurrence(batch.names[i]) < FirstOccurrence(batch.names[j])
    /\ (batch.pc = "responded" /\ batch.response.status = 200) =>
          /\ batch.response.total_names = Len(batch.names)
          /\ Len(batch.response.results) = Len(batch.names)
          /\ batch.response.total_names = Cardinality(Range(batch.names))
          /\ \A i \in 1..Len(batch.names) :
                batch.response.results[i].name = batch.names[i]

\* a request of three raw names, two of them the same name after cleaning,
\* answered with two results
C34_Witness ==
    /\ batch.pc = "responded"
    /\ batch.response.status = 200
    /\ batch.raw = << <<" ", "a", "c", " ">>, <<"b">>, <<"A", "c">> >>
    /\ batch.response.total_names = 2

\* the result check_single_name returns for the i-th name, given what the
\* cache held when the request came and what the check of the name returned
OwnResult(i) ==
    IF batch.tasks[i].hit
    THEN batch.store0[cache_key(batch.names[i], BatchProviders)]
    ELSE BatchCheckResult(batch.names[i], batch.tasks[i].reply.value)

\* C35: the response of a batch request is determined by its names and the
\* outcome of each name's check, the same with parallel = true and with
\* parallel = false: the request fails exactly when a check_single_name
\* raised, and otherwise answers with the own result of each name in the
\* order of the names and the summary of that list.
C35_ParallelEqualsSequential ==
    /\ batch.pc = "failed" =>
          /\ \E i \in BatchTaskIds : batch.tasks[i].pc = "raised"
          /\ batch.response = [status |-> 500]
    /\ (batch.pc = "responded" /\ batch.response.status = 200) =>
          /\ \A i \in BatchTaskIds : batch.tasks[i].pc = "done"
          /\ batch.response =
                BatchCheckResponse(batch.names, [i \in BatchTaskIds |-> OwnResult(i)])

\* a parallel request whose second name finished before its first, the two
\* with different percentages
C35_Witness ==
    /\ batch.pc = "responded"
    /\ batch.response.status = 200
    /\ batch.parallel
    /\ batch.order = <<2, 1>>
    /\ batch.response.results[1].availability_percentage
          # batch.response.results[2].availability_percentage

====
